---------------------------- MODULE Spec2Model ----------------------------
(***************************************************************************)
(* A model of the Fitbit API poller (src/api_poller.py): the start-up, the *)
(* gap scheduler, the retrying fetch loops, the credential rotation hook,  *)
(* the conversion of raw items to points and the endless pass loop of      *)
(* run_api_poller; and of the export loader                                *)
(* (src/fitbit_export_loader.py): write_data_for with its deduplication,   *)
(* its two early returns and its chunked write.                            *)
(*                                                                         *)
(* Time is counted in ticks, DayTicks ticks to a calendar day, so that a   *)
(* datetime with a time of day (utcnow(), a sleep record's startTime, a    *)
(* body log's logId) differs from the midnight of its date.  Day(t) is the *)
(* calendar date of t: it is what the Fitbit client puts in the request    *)
(* for a datetime given as base_date or end_date.                          *)
(***************************************************************************)
EXTENDS Integers, Sequences, FiniteSets, TLC

(***************************************************************************)
(* Bounds of the model.                                                    *)
(***************************************************************************)
DayTicks == 2
    \* resolution of the clock: ticks in one day
SchedMaxGap == 57
    \* SpecSched: longest backfill or forward gap drawn, in days
SchedMaxMid == 3
    \* SpecSched: longest distance first_ts..last_ts drawn, in ticks
MaxMemberDay == 1
    \* SpecSched: latest memberSince date drawn, in days
MemberSinceDay == 0
    \* Spec: the date the profile gives as memberSince
StartDay == 5
    \* Spec: the date on which the service is first started
MaxElapsed == 2
    \* Spec: ticks the clock may advance after the first start
MaxRetries == 3
    \* Spec: failed attempts allowed to one request
MaxRotations == 1
    \* Spec: credential rotations by the transport
MaxRestarts == 1
    \* Spec: restarts of the process after it stopped
MaxPasses == 1
    \* Spec: inter-pass sleeps a process wakes from
RegularFromDay == 32
    \* the source: first day of the owner's regular sleep records
LongDay == 190
    \* SpecLong: the date on which the service is first started; the source
    \* holds the regular sleep records up to this day

(***************************************************************************)
(* Dates and durations.                                                    *)
(***************************************************************************)
OneDay == DayTicks
    \* timedelta(days=1)

REQUEST_INTERVAL == 27 * DayTicks
    \* timedelta(days=27)

Day(t) == t \div DayTicks

Midnight(d) == d * DayTicks

\* int(x / timedelta(days=1)): the quotient truncated towards zero
IntDays(delta) ==
    IF delta >= 0 THEN delta \div OneDay ELSE -((-delta) \div OneDay)

\* the calendar days a request for the interval <<a, b>> asks for
DaysOf(ivl) == Day(ivl[1]) .. Day(ivl[2])

SetMin(S) == CHOOSE x \in S : \A y \in S : x <= y

SetMax(S) == CHOOSE x \in S : \A y \in S : y <= x

(***************************************************************************)
(* The configured series: a part of BASE_SERIES, in its order.  steps is a *)
(* plain {dateTime, value} series with one item per calendar day;          *)
(* body_log/weight and sleep are composite, have a key series and carry    *)
(* timestamps with a time of day.  A series name is the tuple of the parts *)
(* the code joins with "_".                                                *)
(***************************************************************************)
BASE_SERIES ==
    << [meas |-> "activities", series |-> "steps",
        key_series |-> << "steps" >>],
       [meas |-> "body_log",   series |-> "weight",
        key_series |-> << "weight", "weight" >>],
       [meas |-> "sleep",      series |-> "sleep",
        key_series |-> << "efficiency" >>] >>

NSeries == Len(BASE_SERIES)

\* the (measurement, field) the gap detection of series i queries
KeyOf(i) == << BASE_SERIES[i].meas, BASE_SERIES[i].key_series >>

StoreKeys == { KeyOf(i) : i \in 1..NSeries }

\* series whose points are stamped with a datetime, not a date
HasTimeOfDay(i) == BASE_SERIES[i].meas \in {"body_log", "sleep"}

\* the resource path of series i: meas/series, the first _ of meas turned
\* into /, and sleep/sleep shortened to sleep
ResourceOf(i) ==
    CASE BASE_SERIES[i].meas = "activities" -> "activities/steps"
      [] BASE_SERIES[i].meas = "body_log"   -> "body/log/weight"
      [] BASE_SERIES[i].meas = "sleep"      -> "sleep"

(***************************************************************************)
(* The source.  A plain series has one item for every calendar day asked   *)
(* for; a log series has the records the owner made, here two weight logs  *)
(* and three sleep records, each with its time of day, and from            *)
(* RegularFromDay on two sleep records a day (a night and a nap).  The     *)
(* source lists the items of an answer oldest first or newest first.       *)
(***************************************************************************)
\* the records of a log series, oldest first
SourceLogs(i) ==
    CASE BASE_SERIES[i].meas = "body_log" -> << Midnight(4) + 1, Midnight(6) >>
      [] BASE_SERIES[i].meas = "sleep"    ->
             << 1, Midnight(3) + 1, Midnight(28) >>
             \o [k \in 1 .. 2 * (LongDay - RegularFromDay + 1) |->
                    Midnight(RegularFromDay + ((k - 1) \div 2)) + ((k - 1) % 2)]
      [] OTHER -> << >>

\* the timestamps of the items api_client.time_series returns at time t for
\* series i and the interval ivl, in the order the source lists them
time_series(i, ivl, t, order) ==
    LET first == Day(ivl[1])
        last == IF Day(ivl[2]) < Day(t) THEN Day(ivl[2]) ELSE Day(t)
        oldest_first ==
            IF HasTimeOfDay(i)
            THEN SelectSeq(SourceLogs(i),
                           LAMBDA x : Day(x) \in DaysOf(ivl) /\ x <= t)
            ELSE [k \in 1 .. (IF last < first THEN 0 ELSE last - first + 1) |->
                     Midnight(first + k - 1)]
        n == Len(oldest_first)
    IN  IF order = "newest_first"
        THEN [k \in 1 .. n |-> oldest_first[n + 1 - k]]
        ELSE oldest_first

(***************************************************************************)
(* The store's answers to SELECT first(..) and SELECT last(..).            *)
(***************************************************************************)
get_first_timestamp_for_measurement(rows, min_ts) ==
    IF rows # {} THEN SetMin(rows) ELSE min_ts

get_last_timestamp_for_measurement(rows, min_ts) ==
    IF rows # {} THEN SetMax(rows) ELSE min_ts

(***************************************************************************)
(* The chunking of one gap.                                                *)
(***************************************************************************)
\* a plausible slip: a chunk one day longer than REQUEST_INTERVAL
RECURSIVE append_long_chunks(_, _, _)
append_long_chunks(in_list, cur_marker, interval_max) ==
    IF cur_marker > interval_max THEN in_list
    ELSE IF cur_marker + REQUEST_INTERVAL > interval_max
         THEN Append(in_list, << cur_marker, interval_max >>)
         ELSE append_long_chunks(
                  Append(in_list, << cur_marker, cur_marker + REQUEST_INTERVAL + OneDay >>),
                  cur_marker + REQUEST_INTERVAL + OneDay + OneDay, interval_max)

RECURSIVE append_between_day_series(_, _, _)
append_between_day_series(in_list, cur_marker, interval_max) ==
    IF cur_marker > interval_max THEN in_list
    ELSE IF cur_marker + REQUEST_INTERVAL > interval_max
         THEN Append(in_list, << cur_marker, interval_max >>)
         ELSE append_between_day_series(
                  Append(in_list, << cur_marker, cur_marker + REQUEST_INTERVAL >>),
                  cur_marker + REQUEST_INTERVAL + OneDay, interval_max)

(***************************************************************************)
(* The interval list of one series in one pass, from the two gap widths.   *)
(***************************************************************************)
\* a plausible slip: the forward gap scheduled before the backfill gap
gap_intervals_forward_first(member_since, first, last, today) ==
    LET to_first   == IntDays(first - member_since)
        to_current == IntDays(today - last)
        forward  == IF to_current > 1
                    THEN append_between_day_series(<< >>, last, today)
                    ELSE << >>
    IN  IF to_first > 1
        THEN append_between_day_series(forward, member_since, first)
        ELSE forward

gap_intervals(member_since, first, last, today) ==
    LET to_first   == IntDays(first - member_since)
        to_current == IntDays(today - last)
        backfill == IF to_first > 1
                    THEN append_between_day_series(<< >>, member_since, first)
                    ELSE << >>
    IN  IF to_current > 1
        THEN append_between_day_series(backfill, last, today)
        ELSE backfill

intervals_without_keepalive(member_since, first, last, today) ==
    gap_intervals(member_since, first, last, today)

intervals_for(member_since, first, last, today) ==
    LET gaps == gap_intervals(member_since, first, last, today)
    IN  IF gaps = << >> THEN << << today, today >> >> ELSE gaps

(***************************************************************************)
(* The except clauses of the two retry loops: which exceptions are caught  *)
(* and retried, and the sleep before the retry.  Any other exception is    *)
(* logged and raised again.                                                *)
(***************************************************************************)
Transient == {"Timeout", "HTTPServerError", "HTTPTooManyRequests"}

Exceptions == Transient \cup {"Other"}

\* a plausible slip: the clause for the 5xx error is missing
is_retried_no_5xx(ex) == ex \in {"Timeout", "HTTPTooManyRequests"}

\* a plausible slip: the last clause swallows the exception and retries
is_retried_any(ex) == TRUE

is_retried(ex) == ex \in {"Timeout", "HTTPServerError", "HTTPTooManyRequests"}

\* a plausible slip: the rate limit is waited out like a timeout
retry_delay_short(ex) == 15

retry_delay(ex) == IF ex = "HTTPTooManyRequests" THEN 3610 ELSE 15

(***************************************************************************)
(* State.                                                                  *)
(***************************************************************************)
VARIABLES
    now,                \* the clock
    server_gen,         \* the generation of tokens the source accepts
    files,              \* the credential files: name -> generation or NoFile
    store,              \* the time-series store: key -> timestamps present
    pc,                 \* where run_api_poller stands
    why_dead,           \* how the process ended
    restarts,           \* restarts so far
    passes,             \* inter-pass sleeps the process woke from, up to MaxPasses
    creds,              \* the tokens the api_client holds
    hook,               \* the file write_updated_credentials writes next
    api_version,        \* api_client.API_VERSION
    api_endpoint,       \* api_client.API_ENDPOINT
    db_open,            \* the store connections opened and not closed
    boot_idx,           \* the credential the start-up looks at next
    wr_pos,             \* the points of the series write_points has sent
    member_since_dt,    \* the profile's memberSince, a midnight
    cur_day,            \* utcnow() as read before the loop
    series_idx,         \* position of the two for loops over BASE_SERIES
    first_ts, last_ts,  \* the store's first and last timestamp, or cur_day
    profile_to_first, last_to_current,
    intervals_to_fetch,
    ivl_idx,            \* position of the for loop of fitbit_fetch_datapoints
    datapoints,         \* the payloads received for the series, in order
    last_req,           \* the request issued last
    outcome,            \* how the last attempt ended
    trace,              \* the failures of the current request, in order
    slept,              \* the sleeps of the current request, in order
    env,                \* the environment variables: name -> value or NoFile
    ld_pc,              \* where the export loader's write_data_for stands
    ld_dump,            \* the records of the export files of the key, merged
    ld_store,           \* the loader's measurement in the store: time -> value
    ld_final,           \* final_list: the records still to write
    ld_lost,            \* records the store rejected while the loader went on
    cv_item,            \* the raw item handed to a transform
    cv_out              \* the points the transform returned, or its exception

env_vars == << now, server_gen, files, store >>

proc_vars == << pc, why_dead, restarts, passes >>

cred_vars == << creds, hook >>

client_vars == << api_version, api_endpoint, db_open >>

step_vars == << boot_idx, wr_pos >>

sched_vars == << first_ts, last_ts, profile_to_first, last_to_current,
                 intervals_to_fetch >>

loop_vars == << member_since_dt, cur_day, series_idx >>

fetch_vars == << ivl_idx, datapoints, last_req, outcome, trace, slept >>

poller_vars == << env_vars, proc_vars, cred_vars, client_vars, step_vars, sched_vars,
                  loop_vars, fetch_vars >>

loader_vars == << ld_pc, ld_dump, ld_store, ld_final, ld_lost >>

conv_vars == << cv_item, cv_out >>

\* what no step of run_api_poller changes
outer_vars == << env, loader_vars, conv_vars >>

vars == << poller_vars, outer_vars >>

NoFile == -1

CredFiles == {"client_id", "client_secret", "access_token", "refresh_token",
              "expires_at"}

NoCreds == [access_token |-> NoFile, refresh_token |-> NoFile]

NoRequest == << "", 0, 0 >>

EmptyStore == [k \in StoreKeys |-> {}]

MaxNow == Midnight(StartDay) + DayTicks - 1 + MaxElapsed

\* the attributes a new api_client has
DefaultApiVersion == "1"

DefaultApiEndpoint == "https://api.fitbit.com"

\* the version the sleep family is fetched with
SleepApiVersion == "1.2"

\* a store client is built: one more connection
db_connect(open) == open + 1

db_close_skipped(open) == open

\* db_client.close()
db_close(open) == open - 1

\* the elements of a list
Range(seq) == { seq[k] : k \in 1 .. Len(seq) }

\* all the items of the payloads received
Flatten(payloads) == UNION { Range(payloads[k]) : k \in 1 .. Len(payloads) }

\* the memory of a process that is not running
MemoryGone ==
    /\ creds' = NoCreds
    /\ hook' = "idle"
    /\ api_version' = DefaultApiVersion
    /\ api_endpoint' = DefaultApiEndpoint
    /\ db_open' = 0
    /\ boot_idx' = 1
    /\ wr_pos' = 0
    /\ member_since_dt' = 0
    /\ cur_day' = 0
    /\ series_idx' = 1
    /\ first_ts' = 0
    /\ last_ts' = 0
    /\ profile_to_first' = 0
    /\ last_to_current' = 0
    /\ intervals_to_fetch' = << >>
    /\ ivl_idx' = 1
    /\ datapoints' = << >>
    /\ trace' = << >>
    /\ slept' = << >>

\* the process ends by an exception, an exit or a signal; what it held is
\* lost (last_req and outcome stay as the record of its last attempt)
Dies(reason) ==
    /\ pc' = "dead"
    /\ why_dead' = reason
    /\ MemoryGone
    /\ last_req' = IF reason = "killed" THEN NoRequest ELSE last_req
    /\ UNCHANGED << restarts, passes >>

(***************************************************************************)
(* Start of the process: the credentials are loaded from their files, a    *)
(* missing file is filled from the environment and saved, and the client   *)
(* is built with the loaded tokens.                                        *)
(***************************************************************************)
EnvToken == 0
    \* the generation of the tokens given in the environment

\* a file that open(.., 'w') created and nothing was written to
EmptyFile == -2

(***************************************************************************)
(* The values of Python the start-up and the conversion meet: a kind and   *)
(* what the value holds (a number, or what a text stands for).             *)
(***************************************************************************)
None == [kind |-> "none", v |-> 0]

IntV(n) == [kind |-> "int", v |-> n]

FloatV(thousandths) == [kind |-> "float", v |-> thousandths]

BoolV(b) == [kind |-> "bool", v |-> IF b THEN 1 ELSE 0]

\* bool(value) is False
Falsy(value) ==
    \/ value.kind \in {"none", "str_empty"}
    \/ value.kind \in {"int", "float", "bool"} /\ value.v = 0

\* a text that int() rejects
StrV(content) == [kind |-> "str_other", v |-> content]

\* a text of digits, and the empty text
StrNum(n) == [kind |-> "str_num", v |-> n]

StrEmpty == [kind |-> "str_empty", v |-> 0]

IsStr(value) == value.kind \in {"str_other", "str_num", "str_empty"}

\* str(value)
str(value) == IF value.kind = "int" THEN StrNum(value.v) ELSE value

ValueError == [kind |-> "ValueError", v |-> 0]

\* the connection parameters read first: CONFIG_PATH and, for the store and
\* the callback, DB_HOST .. CALLBACK_URL (one stands for them)
ConnParams == {"CONFIG_PATH", "DB_HOST"}

\* the required variables in the order of the fallback to the environment
BootOrder == << "client_id", "client_secret", "access_token", "refresh_token",
                "expires_at" >>

\* int(in_var) succeeds on a text of digits and on nothing else the
\* environment or a file holds
try_cast_to_int(in_var) ==
    IF in_var.kind = "str_num" THEN IntV(in_var.v) ELSE in_var

\* os.environ.get gives None for an unset variable; a falsy value (None,
\* the empty text, the int 0 of '0' or '000') gives the default or raises
try_getenv(var_name, default_var) ==
    LET my_var == try_cast_to_int(env[var_name])
    IN  IF ~Falsy(my_var) THEN my_var
        ELSE IF ~Falsy(default_var) THEN default_var
        ELSE ValueError

try_load_var(fname) ==
    CASE files[fname] = NoFile    -> None
      [] files[fname] = EmptyFile -> StrEmpty
      [] OTHER                    -> StrV(files[fname])

\* open(.., 'w') creates or empties the file, write fills it; write raises
\* TypeError when value is not a str and leaves the file empty (a signal
\* between the two leaves it empty as well: KillInSave)
save_var(fname, value) ==
    [files EXCEPT ![fname] = IF IsStr(value) /\ value.kind # "str_empty"
                             THEN value.v ELSE EmptyFile]

\* the connection parameters are read, then the five files: a missing
\* parameter raises ValueError; a CONFIG_PATH of digits is an int after
\* try_getenv, and os.path.join raises TypeError on it in the first
\* try_load_var, before any file is read
Boot ==
    /\ pc = "boot"
    /\ outcome' = "none"
    /\ IF \/ \E p \in ConnParams : try_getenv(p, None) = ValueError
          \/ ~IsStr(try_getenv("CONFIG_PATH", None))
       THEN Dies("raised")
       ELSE /\ pc' = "boot_fill"
            /\ boot_idx' = 1
            /\ wr_pos' = wr_pos
            /\ UNCHANGED << why_dead, restarts, passes, cred_vars, client_vars,
                            sched_vars, loop_vars, ivl_idx, datapoints, last_req,
                            trace, slept >>
    /\ UNCHANGED env_vars
    /\ UNCHANGED outer_vars

\* one of the five blocks: a variable its file did not give is read from
\* the environment and saved
BootFill ==
    /\ pc = "boot_fill"
    /\ boot_idx <= Len(BootOrder)
    /\ LET fname == BootOrder[boot_idx]
           my_var == try_getenv(fname, None)
           value == IF fname = "expires_at" THEN str(try_cast_to_int(my_var))
                    ELSE my_var
           goes_on == /\ boot_idx' = boot_idx + 1
                      /\ wr_pos' = wr_pos
                      /\ UNCHANGED << proc_vars, cred_vars, client_vars, sched_vars,
                                      loop_vars, fetch_vars >>
       IN  IF ~Falsy(try_load_var(fname))
           THEN /\ files' = files
                /\ goes_on
           ELSE IF my_var = ValueError
           THEN /\ files' = files
                /\ outcome' = outcome
                /\ Dies("raised")
           ELSE /\ files' = save_var(fname, value)
                /\ IF ~IsStr(value)
                   THEN /\ outcome' = outcome
                        /\ Dies("raised")
                   ELSE goes_on
    /\ UNCHANGED << now, server_gen, store >>
    /\ UNCHANGED outer_vars

\* the client is built with what the files and the environment gave
BootClient ==
    /\ pc = "boot_fill"
    /\ boot_idx > Len(BootOrder)
    /\ creds' = [access_token |-> files["access_token"],
                 refresh_token |-> files["refresh_token"]]
    /\ api_version' = DefaultApiVersion
    /\ api_endpoint' = DefaultApiEndpoint
    /\ db_open' = 0
    /\ boot_idx' = 1
    /\ wr_pos' = 0
    /\ pc' = "profile_req"
    /\ trace' = << >>
    /\ slept' = << >>
    /\ UNCHANGED << env_vars, why_dead, restarts, passes, hook, sched_vars,
                    loop_vars, ivl_idx, datapoints, last_req, outcome >>
    /\ UNCHANGED outer_vars

(***************************************************************************)
(* The transport inside a request.  The access token expires at a moment   *)
(* the process does not choose; the transport then trades the refresh      *)
(* token for a new pair, which revokes the old pair, and calls             *)
(* write_updated_credentials, which saves three files one after another.   *)
(***************************************************************************)
InRequest == pc \in {"profile_wait", "fetch_wait"}

Rotate ==
    /\ InRequest
    /\ hook = "idle"
    /\ server_gen < MaxRotations
    /\ creds.refresh_token = server_gen
    /\ server_gen' = server_gen + 1
    /\ creds' = [access_token |-> server_gen + 1, refresh_token |-> server_gen + 1]
    /\ hook' = "access_token"
    /\ UNCHANGED << now, files, store, proc_vars, sched_vars, loop_vars, fetch_vars >>
    /\ UNCHANGED << client_vars, step_vars >>
    /\ UNCHANGED outer_vars

HookSaveAccess ==
    /\ InRequest
    /\ hook = "access_token"
    /\ files' = save_var("access_token", StrV(creds.access_token))
    /\ hook' = "refresh_token"
    /\ UNCHANGED << now, server_gen, store, creds, proc_vars, sched_vars,
                    loop_vars, fetch_vars >>
    /\ UNCHANGED << client_vars, step_vars >>
    /\ UNCHANGED outer_vars

HookSaveRefresh ==
    /\ InRequest
    /\ hook = "refresh_token"
    /\ files' = save_var("refresh_token", StrV(creds.refresh_token))
    /\ hook' = "expires_at"
    /\ UNCHANGED << now, server_gen, store, creds, proc_vars, sched_vars,
                    loop_vars, fetch_vars >>
    /\ UNCHANGED << client_vars, step_vars >>
    /\ UNCHANGED outer_vars

HookSaveExpires ==
    /\ InRequest
    /\ hook = "expires_at"
    /\ files' = save_var("expires_at", str(StrV(creds.access_token)))
    /\ hook' = "idle"
    /\ UNCHANGED << now, server_gen, store, creds, proc_vars, sched_vars,
                    loop_vars, fetch_vars >>
    /\ UNCHANGED << client_vars, step_vars >>
    /\ UNCHANGED outer_vars

\* the request can be answered: no rotation is under way and the source
\* accepts the access token
Answered == hook = "idle" /\ creds.access_token = server_gen

\* a request is sent: a first attempt starts a new record of failures
Issued(req) ==
    /\ last_req' = req
    /\ trace' = IF outcome \in Transient THEN trace ELSE << >>
    /\ slept' = IF outcome \in Transient THEN slept ELSE << >>

(***************************************************************************)
(* The profile request at start, in its retry loop.                        *)
(***************************************************************************)
ProfileIssue ==
    /\ pc = "profile_req"
    /\ pc' = "profile_wait"
    /\ Issued(<< "user/profile", 0, 0 >>)
    /\ UNCHANGED << env_vars, why_dead, restarts, passes, cred_vars, sched_vars,
                    loop_vars, ivl_idx, datapoints, outcome >>
    /\ UNCHANGED << client_vars, step_vars >>
    /\ UNCHANGED outer_vars

ProfileFail ==
    /\ pc = "profile_wait"
    /\ Answered
    /\ Len(trace) < MaxRetries
    /\ \E ex \in Exceptions :
          /\ is_retried(ex)
          /\ outcome' = ex
          /\ trace' = Append(trace, ex)
          /\ slept' = Append(slept, retry_delay(ex))
    /\ pc' = "profile_sleep"
    /\ UNCHANGED << env_vars, why_dead, restarts, passes, cred_vars, sched_vars,
                    loop_vars, ivl_idx, datapoints, last_req >>
    /\ UNCHANGED << client_vars, step_vars >>
    /\ UNCHANGED outer_vars

ProfileRaise ==
    /\ pc = "profile_wait"
    /\ hook = "idle"
    /\ \E ex \in Exceptions :
          /\ ~is_retried(ex)
          /\ outcome' = ex
    /\ Dies("raised")
    /\ UNCHANGED env_vars
    /\ UNCHANGED outer_vars

ProfileWake ==
    /\ pc = "profile_sleep"
    /\ pc' = "profile_req"
    /\ UNCHANGED << env_vars, why_dead, restarts, passes, cred_vars, sched_vars,
                    loop_vars, fetch_vars >>
    /\ UNCHANGED << client_vars, step_vars >>
    /\ UNCHANGED outer_vars

\* the profile arrives: memberSince is parsed, the clock is read, the
\* database is made sure of, and the loop starts with the first series
ProfileOk ==
    /\ pc = "profile_wait"
    /\ Answered
    /\ outcome' = "ok"
    /\ member_since_dt' = Midnight(MemberSinceDay)
    /\ cur_day' = now
    /\ series_idx' = 1
    /\ pc' = "sched"
    /\ UNCHANGED << env_vars, why_dead, restarts, passes, cred_vars, sched_vars,
                    ivl_idx, datapoints, last_req, trace, slept >>
    /\ db_open' = db_close(db_connect(db_open))
    /\ UNCHANGED << api_version, api_endpoint, step_vars >>
    /\ UNCHANGED outer_vars

(***************************************************************************)
(* Scheduling of the current series: the store's cursors are read, the two *)
(* gap widths computed and the interval list built.                        *)
(***************************************************************************)
Schedule ==
    /\ pc = "sched"
    /\ LET rows == store[KeyOf(series_idx)]
           f == get_first_timestamp_for_measurement(rows, cur_day)
           l == get_last_timestamp_for_measurement(rows, cur_day)
       IN  /\ first_ts' = f
           /\ last_ts' = l
           /\ profile_to_first' = IntDays(f - member_since_dt)
           /\ last_to_current' = IntDays(cur_day - l)
           /\ intervals_to_fetch' = intervals_for(member_since_dt, f, l, cur_day)
    /\ pc' = "fetch_req"
    /\ ivl_idx' = 1
    /\ datapoints' = << >>
    /\ trace' = << >>
    /\ slept' = << >>
    /\ UNCHANGED << env_vars, why_dead, restarts, passes, cred_vars, loop_vars,
                    last_req, outcome >>
    /\ db_open' = db_close(db_connect(db_open))
    /\ api_version' = IF BASE_SERIES[series_idx].meas = "sleep"
                      THEN SleepApiVersion ELSE api_version
    /\ api_endpoint' = api_endpoint
    /\ UNCHANGED step_vars
    /\ UNCHANGED outer_vars

(***************************************************************************)
(* fitbit_fetch_datapoints: the intervals one after another, each in its   *)
(* retry loop.                                                             *)
(***************************************************************************)
\* the for loop is over: the points are converted and written next
FetchDone ==
    /\ pc = "fetch_req"
    /\ ivl_idx > Len(intervals_to_fetch)
    /\ pc' = "write"
    /\ trace' = << >>
    /\ slept' = << >>
    /\ UNCHANGED << env_vars, why_dead, restarts, passes, cred_vars, sched_vars,
                    loop_vars, ivl_idx, datapoints, last_req, outcome >>
    /\ api_endpoint' = IF BASE_SERIES[series_idx].meas = "sleep"
                       THEN "1" ELSE api_endpoint
    /\ UNCHANGED << api_version, db_open, step_vars >>
    /\ UNCHANGED outer_vars

FetchIssue ==
    /\ pc = "fetch_req"
    /\ ivl_idx <= Len(intervals_to_fetch)
    /\ pc' = "fetch_wait"
    /\ Issued(<< ResourceOf(series_idx), intervals_to_fetch[ivl_idx][1],
                 intervals_to_fetch[ivl_idx][2] >>)
    /\ UNCHANGED << env_vars, why_dead, restarts, passes, cred_vars, sched_vars,
                    loop_vars, ivl_idx, datapoints, outcome >>
    /\ UNCHANGED << client_vars, step_vars >>
    /\ UNCHANGED outer_vars

FetchFail ==
    /\ pc = "fetch_wait"
    /\ Answered
    /\ Len(trace) < MaxRetries
    /\ \E ex \in Exceptions :
          /\ is_retried(ex)
          /\ outcome' = ex
          /\ trace' = Append(trace, ex)
          /\ slept' = Append(slept, retry_delay(ex))
    /\ pc' = "fetch_sleep"
    /\ UNCHANGED << env_vars, why_dead, restarts, passes, cred_vars, sched_vars,
                    loop_vars, ivl_idx, datapoints, last_req >>
    /\ UNCHANGED << client_vars, step_vars >>
    /\ UNCHANGED outer_vars

FetchRaise ==
    /\ pc = "fetch_wait"
    /\ hook = "idle"
    /\ \E ex \in Exceptions :
          /\ ~is_retried(ex)
          /\ outcome' = ex
    /\ Dies("raised")
    /\ UNCHANGED env_vars
    /\ UNCHANGED outer_vars

FetchWake ==
    /\ pc = "fetch_sleep"
    /\ pc' = "fetch_req"
    /\ UNCHANGED << env_vars, why_dead, restarts, passes, cred_vars, sched_vars,
                    loop_vars, fetch_vars >>
    /\ UNCHANGED << client_vars, step_vars >>
    /\ UNCHANGED outer_vars

\* the payload arrives: its items are appended in the order the source
\* lists them, and the next interval is up
FetchOk ==
    /\ pc = "fetch_wait"
    /\ Answered
    /\ outcome' = "ok"
    /\ \E order \in {"oldest_first", "newest_first"} :
          datapoints' = Append(datapoints,
                               time_series(series_idx, intervals_to_fetch[ivl_idx],
                                           now, order))
    /\ ivl_idx' = ivl_idx + 1
    /\ pc' = "fetch_req"
    /\ UNCHANGED << env_vars, why_dead, restarts, passes, cred_vars, sched_vars,
                    loop_vars, last_req, trace, slept >>
    /\ UNCHANGED << client_vars, step_vars >>
    /\ UNCHANGED outer_vars

\* the call returns nothing: the process exits with status 4
FetchEmpty ==
    /\ pc = "fetch_wait"
    /\ Answered
    /\ outcome' = "empty"
    /\ Dies("exit4")
    /\ UNCHANGED env_vars
    /\ UNCHANGED outer_vars

(***************************************************************************)
(* The conversion of raw items to points (api_poller.py:18-161, 254-266,   *)
(* 488-500).  A Python value is a record of its kind and a number: None,   *)
(* an int, a float (counted in thousandths), a bool, the empty string, a   *)
(* string that reads as a number, any other string.  A dict is a function  *)
(* on the keys it has.  A series name is the tuple of the parts the code   *)
(* joins with "_".                                                         *)
(***************************************************************************)
\* float(value) returns
Coercible(value) == value.kind \in {"int", "float", "bool", "str_num"}

float(value) == IF value.kind = "float" THEN value ELSE FloatV(value.v * 1000)

\* dict.get(key, default)
Get(dict, key, default) == IF key \in DOMAIN dict THEN dict[key] ELSE default

\* a plausible slip: the default for a missing or falsy value is left out
create_api_datapoint_no_default(measurement, series, value, in_dt) ==
    [measurement |-> measurement, tag |-> "API", time |-> in_dt, field |-> series,
     value |-> IF Coercible(value) THEN float(value) ELSE value]

create_api_datapoint_meas_series(measurement, series, value, in_dt) ==
    LET value1 == IF Falsy(value) THEN FloatV(0) ELSE value
        value2 == IF Coercible(value1) THEN float(value1) ELSE value1
    IN  [measurement |-> measurement, tag |-> "API", time |-> in_dt,
         field |-> series, value |-> value2]

\* a point as a transform returns it
Dp(d_t, meas, series, value) ==
    [dateTime |-> d_t, meas |-> meas, series |-> series, value |-> value]

\* what a transform does: it returns its points, or raises
Returned(ret_dps) == [state |-> "returned", points |-> ret_dps]

Raised == [state |-> "raised", points |-> << >>]

\* if not one_d: continue; the item added nothing to converted_dps
Skipped == [state |-> "skipped", points |-> << >>]

transform_body_log_fat_datapoint(datapoint) ==
    Returned(<< Dp(datapoint.time, "body_log", << "fat", "fat" >>,
                   Get(datapoint.vals, "fat", FloatV(0))) >>)

transform_body_log_weight_datapoint(datapoint) ==
    Returned(<< Dp(datapoint.time, "body_log", << "weight", "bmi" >>,
                   Get(datapoint.vals, "bmi", FloatV(0))),
                Dp(datapoint.time, "body_log", << "weight", "fat" >>,
                   Get(datapoint.vals, "fat", FloatV(0))),
                Dp(datapoint.time, "body_log", << "weight", "weight" >>,
                   Get(datapoint.vals, "weight", FloatV(0))) >>)

\* str.lower(): a text is the sequence of its characters; every capital
\* letter is replaced by its small letter and every other character is kept
\* (the texts of the model are written in ASCII)
Lower(text) ==
    LET capitals == << "A", "B", "C", "D", "E", "F", "G", "H", "I", "J", "K", "L", "M",
                       "N", "O", "P", "Q", "R", "S", "T", "U", "V", "W", "X", "Y", "Z" >>
        smalls   == << "a", "b", "c", "d", "e", "f", "g", "h", "i", "j", "k", "l", "m",
                       "n", "o", "p", "q", "r", "s", "t", "u", "v", "w", "x", "y", "z" >>
        lower(c) == IF \E n \in 1 .. Len(capitals) : capitals[n] = c
                    THEN smalls[CHOOSE n \in 1 .. Len(capitals) : capitals[n] = c]
                    ELSE c
    IN  [k \in 1 .. Len(text) |-> lower(text[k])]

\* zone['name'].replace(' ', '_').lower()
ZoneSlug(name) ==
    Lower([k \in 1 .. Len(name) |-> IF name[k] = " " THEN "_" ELSE name[k]])

ZoneVals == << "caloriesOut", "max", "min", "minutes" >>

transform_activities_heart_datapoint(datapoint) ==
    LET d_t == datapoint.time
        zones == datapoint.zones
        n == Len(ZoneVals)
    IN  Returned(
            << Dp(d_t, "activities", << "restingHeartRate" >>,
                  Get(datapoint.vals, "restingHeartRate", FloatV(0))) >>
            \o [k \in 1 .. n * Len(zones) |->
                   Dp(d_t, "activities",
                      << "hrz", ZoneSlug(zones[((k - 1) \div n) + 1].name),
                         ZoneVals[((k - 1) % n) + 1] >>,
                      Get(zones[((k - 1) \div n) + 1].vals,
                          ZoneVals[((k - 1) % n) + 1], FloatV(0)))])

SleepBaseKeys == << "efficiency", "isMainSleep", "timeInBed", "minutesAfterWakeup",
                   "minutesAsleep", "minutesAwake", "minutesToFallAsleep" >>

\* datapoint.get('duration', 0) / 1000
DurationValue(datapoint) ==
    LET d == Get(datapoint.vals, "duration", IntV(0))
    IN  FloatV(d.v)

\* the eight points every sleep record gives
SleepBase(datapoint) ==
    << Dp(datapoint.time, "sleep", << "duration" >>, DurationValue(datapoint)) >>
    \o [k \in 1 .. Len(SleepBaseKeys) |->
           Dp(datapoint.time, "sleep", << SleepBaseKeys[k] >>,
              Get(datapoint.vals, SleepBaseKeys[k],
                  IF SleepBaseKeys[k] = "isMainSleep" THEN BoolV(FALSE) ELSE None))]

SummaryVals == << "count", "minutes", "thirtyDayAvgMinutes" >>

\* for one_level, dict_level in datapoint['levels']['summary'].items(): the
\* summary is the sequence of its stages, each with its name (one_level)
\* and its dict (dict_level); the series is one_level.lower() + '_' +
\* one_val, the value dict_level.get(one_val)
SleepSummaryPoints(datapoint) ==
    LET stages == datapoint.levels.summary
        n == Len(SummaryVals)
    IN  [k \in 1 .. n * Len(stages) |->
            LET one_level == stages[((k - 1) \div n) + 1].name
                dict_level == stages[((k - 1) \div n) + 1].vals
                one_val == SummaryVals[((k - 1) % n) + 1]
            IN  Dp(datapoint.time, "sleep_levels",
                   << Lower(one_level), one_val >>,
                   Get(dict_level, one_val, None))]

\* for data_entry in datapoint['levels'][key]: for one_val in ['level',
\* 'seconds']: the same point is appended on each of the two turns
SleepSegmentPoints(datapoint, key, meas) ==
    LET entries == datapoint.levels[key]
    IN  [k \in 1 .. 2 * Len(entries) |->
            Dp(entries[((k - 1) \div 2) + 1].datetime, meas,
               << "level", entries[((k - 1) \div 2) + 1].level >>,
               IntV(entries[((k - 1) \div 2) + 1].seconds))]

\* datapoint.get(key) is true: the record has the key at its top level with
\* a value that is not empty
TopHas(datapoint, key) == key \in datapoint.top_keys

\* datapoint['levels'][key] raises KeyError
LevelsLacks(datapoint, key) == datapoint.levels[key] = << >>

\* datapoint.get('levels') is true
LevelsTrue(datapoint) ==
    /\ datapoint.has_levels
    /\ \E key \in {"summary", "data", "shortData"} : datapoint.levels[key] # << >>

\* a plausible slip: datapoint['levels'] instead of datapoint.get('levels')
transform_sleep_strict(datapoint) ==
    IF ~datapoint.has_levels THEN Raised ELSE Returned(SleepBase(datapoint))

transform_sleep_datapoint(datapoint) ==
    IF ~LevelsTrue(datapoint) THEN Returned(SleepBase(datapoint))
    ELSE IF \E key \in {"summary", "data", "shortData"} :
                TopHas(datapoint, key) /\ LevelsLacks(datapoint, key)
    THEN Raised
    ELSE Returned(
             SleepBase(datapoint)
             \o (IF TopHas(datapoint, "summary")
                 THEN SleepSummaryPoints(datapoint) ELSE << >>)
             \o (IF TopHas(datapoint, "data")
                 THEN SleepSegmentPoints(datapoint, "data", "sleep_data")
                 ELSE << >>)
             \o (IF TopHas(datapoint, "shortData")
                 THEN SleepSegmentPoints(datapoint, "shortData", "sleep_shortData")
                 ELSE << >>))

\* lines 488-500: every point a transform returned goes through
\* create_api_datapoint_meas_series
Converted(result) ==
    IF result.state = "raised" THEN Raised
    ELSE Returned([k \in 1 .. Len(result.points) |->
                      create_api_datapoint_meas_series(
                          result.points[k].meas, result.points[k].series,
                          result.points[k].value, result.points[k].dateTime)])

NoLevels == [summary |-> << >>, data |-> << >>, shortData |-> << >>]

\* a raw item: its timestamp (dateTime, logId or startTime), the scalar
\* keys it has, and the nested structures of its family
Item(family, t, vals, zones, has_levels, levels, top_keys) ==
    [family |-> family, raw |-> "dict", time |-> t, vals |-> vals, zones |-> zones,
     has_levels |-> has_levels, levels |-> levels, top_keys |-> top_keys]

\* an item that is falsy: the empty dict or None
FalsyItem(family, raw) ==
    [family |-> family, raw |-> raw, time |-> 0, vals |-> << >>, zones |-> << >>,
     has_levels |-> FALSE, levels |-> NoLevels, top_keys |-> {}]

\* not one_d
IsFalsyItem(item) == item.raw \in {"empty", "none"}

\* an entry of heartRateZones: its name, character by character, and the
\* values it has
Zone(name, keys) == [name |-> name, vals |-> [x \in keys |-> IntV(7)]]

Segment(t, level) == [datetime |-> t, level |-> level, seconds |-> 30]

(***************************************************************************)
(* The points of the series are converted and written; the next series     *)
(* follows, or the sleep that ends the pass.                               *)
(***************************************************************************)
\* batch_size of write_points
BATCH_SIZE == 2500

\* the raw item the source sends for series i with the timestamp x: a
\* {dateTime, value} pair, a weight log, or a sleep record with its stage
\* summary and its segments inside levels
RawItem(i, x) ==
    CASE BASE_SERIES[i].meas = "body_log" ->
             Item("body_weight", x,
                  [bmi |-> IntV(7), fat |-> IntV(7), weight |-> IntV(7)],
                  << >>, FALSE, NoLevels, {})
      [] BASE_SERIES[i].meas = "sleep" ->
             Item("sleep", x, [duration |-> IntV(7), efficiency |-> IntV(7)],
                  << >>, TRUE,
                  [summary   |-> << [name |-> << "d", "e", "e", "p" >>,
                                     vals |-> [count |-> IntV(3),
                                               minutes |-> IntV(40)]] >>,
                   data      |-> << Segment(x, "deep") >>,
                   shortData |-> << >>],
                  {})
      [] OTHER ->
             Item("default", x, [value |-> StrNum(7)], << >>, FALSE, NoLevels, {})

\* one turn of the loop over datapoints: a falsy item is passed over; any
\* other item gives its points, by the transform of its series or as one
\* {dateTime, value} point; an exception of the transform is not caught
new_dps(i, one_d) ==
    IF IsFalsyItem(one_d) THEN Skipped
    ELSE CASE BASE_SERIES[i].meas = "body_log" ->
                  Converted(transform_body_log_weight_datapoint(one_d))
           [] BASE_SERIES[i].meas = "sleep" ->
                  Converted(transform_sleep_datapoint(one_d))
           [] OTHER ->
                  Returned(<< create_api_datapoint_meas_series(
                                  BASE_SERIES[i].meas, << BASE_SERIES[i].series >>,
                                  Get(one_d.vals, "value", None), one_d.time) >>)

\* two parts of the loop, one after the other: the points of both, or the
\* exception that ended the loop
Both(first, second) ==
    IF first.state = "raised" \/ second.state = "raised" THEN Raised
    ELSE Returned(first.points \o second.points)

\* the loop over the items of one answer, in the order received (the list
\* is taken by halves, as below)
RECURSIVE answer_dps(_, _)
answer_dps(i, items) ==
    IF items = << >> THEN Returned(<< >>)
    ELSE IF Len(items) = 1 THEN Both(new_dps(i, RawItem(i, items[1])), Returned(<< >>))
    ELSE LET half == Len(items) \div 2
         IN  Both(answer_dps(i, SubSeq(items, 1, half)),
                  answer_dps(i, SubSeq(items, half + 1, Len(items))))

\* converted_dps: the points of all the items of series i, in the order
\* the items were received, or the exception of a transform (the list of
\* answers is taken by halves, which gives the same list as going through
\* it from the front)
RECURSIVE converted_dps(_, _)
converted_dps(i, payloads) ==
    IF payloads = << >> THEN Returned(<< >>)
    ELSE IF Len(payloads) = 1 THEN answer_dps(i, payloads[1])
    ELSE LET half == Len(payloads) \div 2
         IN  Both(converted_dps(i, SubSeq(payloads, 1, half)),
                  converted_dps(i, SubSeq(payloads, half + 1, Len(payloads))))

\* the batch write_points sends next: at most BATCH_SIZE points
NextBatch(points, pos) ==
    { points[k] : k \in { n \in 1 .. Len(points) : pos < n /\ n <= pos + BATCH_SIZE } }

\* the rows the gap detection of series i will find among the points: the
\* times of the points of its key series
KeyRows(i, points) ==
    { p.time : p \in { q \in points : /\ q.measurement = BASE_SERIES[i].meas
                                      /\ q.field = BASE_SERIES[i].key_series } }

\* the loop goes to the next series, or to the sleep that ends the pass
NextSeries ==
    IF series_idx < NSeries
    THEN /\ series_idx' = series_idx + 1
         /\ pc' = "sched"
    ELSE /\ series_idx' = series_idx
         /\ pc' = "pass_sleep"

\* a plausible slip: the points of the series are kept for one write at the
\* end of the pass
WriteBuffered ==
    /\ pc = "write"
    /\ store' = store
    /\ wr_pos' = 0
    /\ NextSeries
    /\ UNCHANGED << now, server_gen, files, why_dead, restarts, passes, cred_vars,
                    client_vars, boot_idx, sched_vars, member_since_dt, cur_day,
                    fetch_vars >>
    /\ UNCHANGED outer_vars

\* the items are converted to points: an exception of a transform ends the
\* process before anything is written (the records of the model's source
\* raise none); one request of write_points: the next batch of at most
\* BATCH_SIZE points goes into the store (a series of up to BATCH_SIZE
\* points is one request); the connection is opened before the first batch
\* and closed after the last
Write ==
    /\ pc = "write"
    /\ LET result == converted_dps(series_idx, datapoints)
           points == result.points
           opened == IF wr_pos = 0 THEN db_connect(db_open) ELSE db_open
       IN  IF result.state = "raised"
           THEN /\ outcome' = outcome
                /\ Dies("raised")
                /\ UNCHANGED env_vars
           ELSE /\ store' = [store EXCEPT ![KeyOf(series_idx)] =
                                 @ \cup KeyRows(series_idx,
                                                NextBatch(points, wr_pos))]
                /\ IF wr_pos + BATCH_SIZE >= Len(points)
                   THEN /\ wr_pos' = 0
                        /\ db_open' = db_close(opened)
                        /\ NextSeries
                   ELSE /\ wr_pos' = wr_pos + BATCH_SIZE
                        /\ db_open' = opened
                        /\ UNCHANGED << pc, series_idx >>
                /\ UNCHANGED << now, server_gen, files, why_dead, restarts,
                                passes, cred_vars, api_version, api_endpoint,
                                boot_idx, sched_vars, member_since_dt, cur_day,
                                fetch_vars >>
    /\ UNCHANGED outer_vars

\* the store refuses a batch: an exception ends the process; the batches
\* sent before it stay in the store
WriteFail ==
    /\ pc = "write"
    /\ outcome' = outcome
    /\ Dies("raised")
    /\ UNCHANGED env_vars
    /\ UNCHANGED outer_vars

\* a plausible slip: the process leaves the loop after the sleep and exits
PassExit ==
    /\ pc = "pass_sleep"
    /\ outcome' = outcome
    /\ Dies("exit0")
    /\ UNCHANGED env_vars
    /\ UNCHANGED outer_vars

\* the sleep after a pass ends and the next pass starts (the passes are
\* counted up to MaxPasses; the loop goes on after that)
PassWake ==
    /\ pc = "pass_sleep"
    /\ passes' = IF passes < MaxPasses THEN passes + 1 ELSE passes
    /\ series_idx' = 1
    /\ pc' = "sched"
    /\ UNCHANGED << env_vars, why_dead, restarts, cred_vars, sched_vars,
                    member_since_dt, cur_day, fetch_vars >>
    /\ UNCHANGED << client_vars, step_vars >>
    /\ UNCHANGED outer_vars

(***************************************************************************)
(* The environment: time passes while the process sleeps or is down; the   *)
(* process is stopped from outside at any point and started again.         *)
(***************************************************************************)
Tick ==
    /\ pc \in {"profile_sleep", "fetch_sleep", "pass_sleep", "dead"}
    /\ now < MaxNow
    /\ now' = now + 1
    /\ UNCHANGED << server_gen, files, store, proc_vars, cred_vars, sched_vars,
                    loop_vars, fetch_vars >>
    /\ UNCHANGED << client_vars, step_vars >>
    /\ UNCHANGED outer_vars

Kill ==
    /\ pc # "dead"
    /\ restarts < MaxRestarts
    /\ outcome' = "none"
    /\ Dies("killed")
    /\ UNCHANGED env_vars
    /\ UNCHANGED outer_vars

\* the signal arrives inside save_var, after open(.., 'w') has emptied the
\* file and before write has filled it: in one of the three saves of
\* write_updated_credentials, or in the save of a variable the environment
\* gave at the start
KillInSave ==
    /\ pc # "dead"
    /\ restarts < MaxRestarts
    /\ \E fname \in CredFiles :
          /\ \/ InRequest /\ hook = fname
             \/ /\ pc = "boot_fill"
                /\ boot_idx <= Len(BootOrder)
                /\ fname = BootOrder[boot_idx]
                /\ Falsy(try_load_var(fname))
                /\ try_getenv(fname, None) # ValueError
          /\ files' = [files EXCEPT ![fname] = EmptyFile]
    /\ outcome' = "none"
    /\ Dies("killed")
    /\ UNCHANGED << now, server_gen, store >>
    /\ UNCHANGED outer_vars

Restart ==
    /\ pc = "dead"
    /\ restarts < MaxRestarts
    /\ restarts' = restarts + 1
    /\ pc' = "boot"
    /\ why_dead' = "no"
    /\ passes' = 0
    /\ outcome' = "none"
    /\ last_req' = NoRequest
    /\ UNCHANGED << env_vars, cred_vars, sched_vars, loop_vars, ivl_idx,
                    datapoints, trace, slept >>
    /\ UNCHANGED << client_vars, step_vars >>
    /\ UNCHANGED outer_vars

(***************************************************************************)
(* Spec: the service from its first start on an empty store.               *)
(***************************************************************************)
\* the environment with every variable set
EnvComplete == [v \in CredFiles \cup ConnParams |-> StrV(EnvToken)]

\* the export loader is not run
LoaderOff ==
    /\ ld_pc = "off"
    /\ ld_dump = << >>
    /\ ld_store = {}
    /\ ld_final = << >>
    /\ ld_lost = {}

\* no transform is under study
ConvOff ==
    /\ cv_item = [family |-> "none"]
    /\ cv_out = [state |-> "off", points |-> << >>]

ProcessFresh ==
    /\ why_dead = "no"
    /\ restarts = 0
    /\ passes = 0
    /\ creds = NoCreds
    /\ hook = "idle"
    /\ api_version = DefaultApiVersion
    /\ api_endpoint = DefaultApiEndpoint
    /\ db_open = 0
    /\ boot_idx = 1
    /\ wr_pos = 0
    /\ ivl_idx = 1
    /\ datapoints = << >>
    /\ last_req = NoRequest
    /\ outcome = "none"
    /\ trace = << >>
    /\ slept = << >>

Init ==
    /\ now \in { Midnight(StartDay) + k : k \in 0 .. DayTicks - 1 }
    /\ server_gen = EnvToken
    /\ files = [f \in CredFiles |-> NoFile]
    /\ store = EmptyStore
    /\ pc = "boot"
    /\ ProcessFresh
    /\ env = EnvComplete
    /\ LoaderOff
    /\ ConvOff
    /\ member_since_dt = 0
    /\ cur_day = 0
    /\ series_idx = 1
    /\ first_ts = 0
    /\ last_ts = 0
    /\ profile_to_first = 0
    /\ last_to_current = 0
    /\ intervals_to_fetch = << >>

Next ==
    \/ Boot
    \/ BootFill
    \/ BootClient
    \/ Rotate
    \/ HookSaveAccess
    \/ HookSaveRefresh
    \/ HookSaveExpires
    \/ ProfileIssue
    \/ ProfileFail
    \/ ProfileRaise
    \/ ProfileWake
    \/ ProfileOk
    \/ Schedule
    \/ FetchDone
    \/ FetchIssue
    \/ FetchFail
    \/ FetchRaise
    \/ FetchWake
    \/ FetchOk
    \/ FetchEmpty
    \/ Write
    \/ WriteFail
    \/ PassWake
    \/ Tick
    \/ Kill
    \/ KillInSave
    \/ Restart

Spec == Init /\ [][Next]_vars

(***************************************************************************)
(* SpecLive: the service when every request is answered after finitely     *)
(* many transient failures and every write succeeds.  The process is one   *)
(* thread that always runs its next statement: a request returns, a sleep  *)
(* ends, the loops go on.  No exception other than the retried ones, no    *)
(* empty answer, no refused write and no signal occurs.                    *)
(***************************************************************************)
ProcessStep ==
    \/ Boot
    \/ BootFill
    \/ BootClient
    \/ Rotate
    \/ HookSaveAccess
    \/ HookSaveRefresh
    \/ HookSaveExpires
    \/ ProfileIssue
    \/ ProfileFail
    \/ ProfileWake
    \/ ProfileOk
    \/ Schedule
    \/ FetchDone
    \/ FetchIssue
    \/ FetchFail
    \/ FetchWake
    \/ FetchOk
    \/ Write
    \/ PassWake

NextLive == ProcessStep \/ Tick

SpecLive == Init /\ [][NextLive]_vars /\ WF_vars(ProcessStep)

(***************************************************************************)
(* SpecSched: the scheduler on every store cursor it can meet.  The store  *)
(* holds nothing for the key series, or rows whose first and last          *)
(* timestamps lie between memberSince and cur_day; a plain daily series    *)
(* has rows at midnights only.                                             *)
(***************************************************************************)
SchedSteps(i) ==
    IF HasTimeOfDay(i) THEN 0 .. SchedMaxGap * DayTicks
    ELSE { Midnight(d) : d \in 0 .. SchedMaxGap }

SchedMids(i) ==
    IF HasTimeOfDay(i) THEN 0 .. SchedMaxMid
    ELSE { Midnight(d) : d \in 0 .. (SchedMaxMid \div DayTicks) }

InitSched ==
    /\ pc = "sched"
    /\ series_idx \in 1 .. NSeries
    /\ member_since_dt \in { Midnight(d) : d \in 0 .. MaxMemberDay }
    /\ \/ /\ store = EmptyStore
          /\ cur_day \in { member_since_dt + g : g \in 0 .. SchedMaxGap * DayTicks }
       \/ \E g1 \in SchedSteps(series_idx), m \in SchedMids(series_idx),
             g2 \in 0 .. SchedMaxGap * DayTicks :
            /\ store = [EmptyStore EXCEPT ![KeyOf(series_idx)] =
                           { member_since_dt + g1, member_since_dt + g1 + m }]
            /\ cur_day = member_since_dt + g1 + m + g2
    /\ now = cur_day
    /\ server_gen = EnvToken
    /\ files = [f \in CredFiles |-> EnvToken]
    /\ creds = [access_token |-> EnvToken, refresh_token |-> EnvToken]
    /\ hook = "idle"
    /\ api_version = DefaultApiVersion
    /\ api_endpoint = DefaultApiEndpoint
    /\ db_open = 0
    /\ boot_idx = 1
    /\ wr_pos = 0
    /\ why_dead = "no"
    /\ restarts = 0
    /\ passes = 0
    /\ ivl_idx = 1
    /\ datapoints = << >>
    /\ last_req = << "user/profile", 0, 0 >>
    /\ outcome = "ok"
    /\ trace = << >>
    /\ slept = << >>
    /\ env = EnvComplete
    /\ LoaderOff
    /\ ConvOff
    /\ first_ts = 0
    /\ last_ts = 0
    /\ profile_to_first = 0
    /\ last_to_current = 0
    /\ intervals_to_fetch = << >>

NextSched == Schedule

SpecSched == InitSched /\ [][NextSched]_vars

(***************************************************************************)
(* SpecBoot: the start of run_api_poller on every environment and every    *)
(* set of credential files.                                                *)
(***************************************************************************)
\* what a variable of the environment can hold: nothing, a text, and for
\* a connection parameter '0', for a credential a text of digits
ConnValues == { None, StrV(EnvToken), StrNum(0), StrNum(7) }

CredValues == { None, StrV(EnvToken), StrNum(7) }

InitBoot ==
    /\ now = Midnight(StartDay)
    /\ server_gen = EnvToken
    /\ files \in [CredFiles -> {NoFile, EnvToken}]
    /\ \E conn \in [ConnParams -> ConnValues], cred \in [CredFiles -> CredValues] :
          env = [v \in CredFiles \cup ConnParams |->
                    IF v \in ConnParams THEN conn[v] ELSE cred[v]]
    /\ store = EmptyStore
    /\ pc = "boot"
    /\ ProcessFresh
    /\ LoaderOff
    /\ ConvOff
    /\ member_since_dt = 0
    /\ cur_day = 0
    /\ series_idx = 1
    /\ first_ts = 0
    /\ last_ts = 0
    /\ profile_to_first = 0
    /\ last_to_current = 0
    /\ intervals_to_fetch = << >>

NextBoot == Boot \/ BootFill \/ BootClient \/ Restart

SpecBoot == InitBoot /\ [][NextBoot]_vars

(***************************************************************************)
(* The export loader (src/fitbit_export_loader.py): write_data_for for one *)
(* key.  A record of the export has a time and the value of the key's      *)
(* first field; the store keeps one point per time, the point written      *)
(* last.                                                                   *)
(***************************************************************************)
MaxLdTime == 3
    \* SpecLoader: the times a record of the export can carry
MaxLdValue == 2
    \* SpecLoader: the values a record of the export can carry
MaxDump == 3
    \* SpecLoader: the records in the export files of the key

CHUNK_SIZE == 2
    \* 5000 in the source, scaled to the lists of the model

LdRecords == [time : 1 .. MaxLdTime, value : 1 .. MaxLdValue]

TimesOf(recs) == { r.time : r \in recs }

\* the first n items of a list, and the rest: final_list[:n], final_list[n:]
Take(seq, n) == SubSeq(seq, 1, IF n < Len(seq) THEN n ELSE Len(seq))

Drop(seq, n) == SubSeq(seq, n + 1, Len(seq))

RECURSIVE dedup_loop(_, _, _)
dedup_loop(rest, tracking_set, new_list) ==
    IF rest = << >> THEN new_list
    ELSE IF Head(rest).time \notin tracking_set
         THEN dedup_loop(Tail(rest), tracking_set \cup { Head(rest).time },
                         Append(new_list, Head(rest)))
         ELSE dedup_loop(Tail(rest), tracking_set, new_list)

dedup_meas(list_of_meas) == dedup_loop(list_of_meas, {}, << >>)

\* the store takes points in their order; a point replaces the point of the
\* same time
RECURSIVE write_points(_, _)
write_points(points, rows) ==
    IF points = << >> THEN rows
    ELSE write_points(Tail(points),
                      { x \in rows : x.time # Head(points).time } \cup { Head(points) })

\* SELECT * FROM key ORDER BY time DESC LIMIT 1: the last time, or 0 when
\* the query returns nothing
LoaderLastTs == IF ld_store = {} THEN 0 ELSE SetMax(TimesOf(ld_store))

\* final_list at line 135: the records of the export, deduplicated, and
\* those before the store's last time left out
LoaderFinalList ==
    LET final_list == dedup_meas(ld_dump)
    IN  IF LoaderLastTs # 0
        THEN SelectSeq(final_list, LAMBDA x : x.time >= LoaderLastTs)
        ELSE final_list

\* SELECT COUNT(first_field) FROM key
LoaderKeyCount == Cardinality(ld_store)

\* write_data_for up to its writes: it returns early when nothing is left
\* after the filter, or when the store's count equals the length of the list
LoaderRead ==
    /\ ld_pc = "start"
    /\ IF LoaderLastTs # 0 /\ LoaderFinalList = << >>
       THEN /\ ld_pc' = "returned_old"
            /\ ld_final' = << >>
       ELSE IF ld_store # {} /\ LoaderKeyCount = Len(LoaderFinalList)
       THEN /\ ld_pc' = "returned_count"
            /\ ld_final' = LoaderFinalList
       ELSE /\ ld_pc' = "writing"
            /\ ld_final' = LoaderFinalList
    /\ UNCHANGED << ld_dump, ld_store, ld_lost >>
    /\ UNCHANGED << poller_vars, env, conv_vars >>

\* one turn of the while loop: the store takes the chunk
LoaderWriteOk ==
    /\ ld_pc = "writing"
    /\ ld_final # << >>
    /\ ld_store' = write_points(Take(ld_final, CHUNK_SIZE), ld_store)
    /\ ld_final' = Drop(ld_final, CHUNK_SIZE)
    /\ UNCHANGED << ld_pc, ld_dump, ld_lost >>
    /\ UNCHANGED << poller_vars, env, conv_vars >>

\* one turn of the while loop: the store refuses the chunk and write_points
\* returns False; the result is not looked at
LoaderWriteRefused ==
    /\ ld_pc = "writing"
    /\ ld_final # << >>
    /\ ld_lost' = ld_lost \cup Range(Take(ld_final, CHUNK_SIZE))
    /\ ld_final' = Drop(ld_final, CHUNK_SIZE)
    /\ UNCHANGED << ld_pc, ld_dump, ld_store >>
    /\ UNCHANGED << poller_vars, env, conv_vars >>

\* one turn of the while loop: the store refuses the chunk and write_points
\* raises; nothing catches the exception
LoaderWriteRaise ==
    /\ ld_pc = "writing"
    /\ ld_final # << >>
    /\ ld_pc' = "dead"
    /\ UNCHANGED << ld_dump, ld_store, ld_final, ld_lost >>
    /\ UNCHANGED << poller_vars, env, conv_vars >>

\* the while loop is over
LoaderWritten ==
    /\ ld_pc = "writing"
    /\ ld_final = << >>
    /\ ld_pc' = "done"
    /\ UNCHANGED << ld_dump, ld_store, ld_final, ld_lost >>
    /\ UNCHANGED << poller_vars, env, conv_vars >>

LoaderReturned == ld_pc \in {"returned_old", "returned_count", "done"}

\* the loader is run again, on the same export or on a later export that
\* has one record more
LoaderAgain ==
    /\ LoaderReturned
    /\ ld_pc' = "start"
    /\ ld_final' = << >>
    /\ \/ ld_dump' = ld_dump
       \/ /\ Len(ld_dump) < MaxDump
          /\ \E r \in LdRecords : ld_dump' = Append(ld_dump, r)
    /\ UNCHANGED << ld_store, ld_lost >>
    /\ UNCHANGED << poller_vars, env, conv_vars >>

\* run_api_poller is not run
PollerOff ==
    /\ now = 0
    /\ server_gen = EnvToken
    /\ files = [f \in CredFiles |-> NoFile]
    /\ env = EnvComplete
    /\ store = EmptyStore
    /\ pc = "off"
    /\ ProcessFresh
    /\ member_since_dt = 0
    /\ cur_day = 0
    /\ series_idx = 1
    /\ first_ts = 0
    /\ last_ts = 0
    /\ profile_to_first = 0
    /\ last_to_current = 0
    /\ intervals_to_fetch = << >>

InitLoader ==
    /\ PollerOff
    /\ ConvOff
    /\ ld_pc = "start"
    /\ ld_dump \in UNION { [1 .. n -> LdRecords] : n \in 0 .. MaxDump }
    /\ ld_store = {}
    /\ ld_final = << >>
    /\ ld_lost = {}

NextLoader ==
    \/ LoaderRead
    \/ LoaderWriteOk
    \/ LoaderWriteRefused
    \/ LoaderWriteRaise
    \/ LoaderWritten
    \/ LoaderAgain

SpecLoader == InitLoader /\ [][NextLoader]_vars

(***************************************************************************)
(* SpecPass: two passes of the loop, one after the other, with the source  *)
(* unchanged: the clock stands still and no request fails.  The process    *)
(* starts on any date, on a store that earlier runs of the service have    *)
(* left.                                                                   *)
(***************************************************************************)
PassMaxDay == 29
    \* SpecPass: the latest date of the start, in days

\* what the source holds for series i at time t
SourceItems(i, t) == Range(time_series(i, << 0, t >>, t, "oldest_first"))

\* the rows of series i after one pass on rows with every request answered
\* (lines 465-514): the pass was started at cur, the clock is at t; the
\* key-series rows of the points written are the times of the items received
pass_rows(i, rows, cur, t) ==
    LET f == get_first_timestamp_for_measurement(rows, cur)
        l == get_last_timestamp_for_measurement(rows, cur)
        ivls == intervals_for(Midnight(MemberSinceDay), f, l, cur)
    IN  rows \cup UNION { Range(time_series(i, ivls[k], t, "oldest_first")) :
                            k \in 1 .. Len(ivls) }

\* LeftRows[i][t + 1]: the rows the passes of earlier runs can have left for
\* series i by time t.  The store is empty before the first run; a run
\* started at cur makes one pass or more and the next run finds what it
\* left.  The passes counted are those made at a moment t of the day of
\* cur: a pass on a later day gets the items of the days up to cur, as a
\* pass at the end of that day does
LeftRows ==
    LET RECURSIVE passes_at(_, _, _)
        passes_at(i, stores, t) ==
            LET more == stores \cup { pass_rows(i, rows, cur, t) :
                                        rows \in stores,
                                        cur \in Midnight(Day(t)) .. t }
            IN  IF more = stores THEN stores ELSE passes_at(i, more, t)
        \* before: what was left by each of the moments 0 .. first - 1;
        \* the moments up to last are added, one after the other (by
        \* halves)
        RECURSIVE up_to(_, _, _)
        up_to(i, before, last) ==
            LET first == Len(before)
            IN  IF first > last THEN before
                ELSE IF first = last
                THEN Append(before,
                            passes_at(i, IF first = 0 THEN { {} }
                                         ELSE before[first], first))
                ELSE up_to(i, up_to(i, before, (first + last) \div 2), last)
    IN  [i \in 1 .. NSeries |->
            up_to(i, << >>, Midnight(PassMaxDay) + DayTicks - 1)]

\* the rows earlier runs can have left for series i by time t
PassRows(i, t) == LeftRows[i][t + 1]

InitPass ==
    /\ now \in { Midnight(d) + k : d \in 0 .. PassMaxDay, k \in 0 .. DayTicks - 1 }
    /\ cur_day = now
    /\ member_since_dt = Midnight(MemberSinceDay)
    /\ \E r1 \in PassRows(1, now), r2 \in PassRows(2, now), r3 \in PassRows(3, now) :
          store = [k \in StoreKeys |->
                      CASE k = KeyOf(1) -> r1
                        [] k = KeyOf(2) -> r2
                        [] OTHER        -> r3]
    /\ server_gen = EnvToken
    /\ files = [f \in CredFiles |-> EnvToken]
    /\ env = EnvComplete
    /\ creds = [access_token |-> EnvToken, refresh_token |-> EnvToken]
    /\ hook = "idle"
    /\ api_version = DefaultApiVersion
    /\ api_endpoint = DefaultApiEndpoint
    /\ db_open = 0
    /\ boot_idx = 1
    /\ wr_pos = 0
    /\ pc = "sched"
    /\ why_dead = "no"
    /\ restarts = 0
    /\ passes = 0
    /\ series_idx = 1
    /\ ivl_idx = 1
    /\ datapoints = << >>
    /\ last_req = << "user/profile", 0, 0 >>
    /\ outcome = "ok"
    /\ trace = << >>
    /\ slept = << >>
    /\ first_ts = 0
    /\ last_ts = 0
    /\ profile_to_first = 0
    /\ last_to_current = 0
    /\ intervals_to_fetch = << >>
    /\ LoaderOff
    /\ ConvOff

NextPass ==
    \/ Schedule
    \/ FetchIssue
    \/ FetchOk
    \/ FetchDone
    \/ Write
    \/ PassWake

SpecPass == InitPass /\ [][NextPass]_vars

(***************************************************************************)
(* SpecLong: the service on an account with a long history and an empty    *)
(* store, from the first scheduling on.  The sleep series has more points  *)
(* than one request of write_points carries, so its write takes two        *)
(* requests; a second pass follows.                                        *)
(***************************************************************************)
\* the state after the profile was read and the database checked
InitLong ==
    /\ now = Midnight(LongDay)
    /\ cur_day = now
    /\ member_since_dt = Midnight(MemberSinceDay)
    /\ store = EmptyStore
    /\ server_gen = EnvToken
    /\ files = [f \in CredFiles |-> EnvToken]
    /\ env = EnvComplete
    /\ creds = [access_token |-> EnvToken, refresh_token |-> EnvToken]
    /\ hook = "idle"
    /\ api_version = DefaultApiVersion
    /\ api_endpoint = DefaultApiEndpoint
    /\ db_open = 0
    /\ boot_idx = 1
    /\ wr_pos = 0
    /\ pc = "sched"
    /\ why_dead = "no"
    /\ restarts = 0
    /\ passes = 0
    /\ series_idx = 1
    /\ ivl_idx = 1
    /\ datapoints = << >>
    /\ last_req = << "user/profile", 0, 0 >>
    /\ outcome = "ok"
    /\ trace = << >>
    /\ slept = << >>
    /\ first_ts = 0
    /\ last_ts = 0
    /\ profile_to_first = 0
    /\ last_to_current = 0
    /\ intervals_to_fetch = << >>
    /\ LoaderOff
    /\ ConvOff

NextLong ==
    \/ Schedule
    \/ FetchIssue
    \/ FetchOk
    \/ FetchDone
    \/ Write
    \/ PassWake

SpecLong == InitLong /\ [][NextLong]_vars

(***************************************************************************)
(* SpecConv: the conversion on every raw item of a small universe.         *)
(***************************************************************************)
MaxConvTime == 2
    \* SpecConv: the timestamps a raw item can carry

RawValues ==
    { None, IntV(0), IntV(7), FloatV(0), FloatV(2500), BoolV(TRUE), BoolV(FALSE),
      [kind |-> "str_empty", v |-> 0], [kind |-> "str_num", v |-> 0],
      [kind |-> "str_num", v |-> 7], [kind |-> "str_other", v |-> 0],
      [kind |-> "list", v |-> 1] }

\* the dicts with some of the keys, each with a value of vs
Dicts(keys, vs) == UNION { [D -> vs] : D \in SUBSET keys }

ConvItems ==
    UNION { { Item("default", t, d, << >>, FALSE, NoLevels, {}) :
                d \in Dicts({"value"}, RawValues) }
            \cup
            { Item("heart", t, d, z, FALSE, NoLevels, {}) :
                d \in Dicts({"restingHeartRate"}, { IntV(7) }),
                z \in { << >>,
                        << Zone(<< "F", "a", "t", " ", "B", "u", "r", "n" >>, {"max", "minutes"}) >>,
                        << Zone(<< "F", "a", "t", " ", "B", "u", "r", "n" >>, {"max", "minutes"}),
                           Zone(<< "P", "e", "a", "k" >>, {}) >>,
                        << Zone(<< "C", "u", "s", "t", "o", "m", " ", "Z", "o", "n", "e" >>, {}) >>,
                        << Zone(<< "O", "u", "t", " ", "o", "f", " ", "R", "a", "n", "g", "e" >>, {"minutes"}),
                           Zone(<< "F", "a", "t", " ", "B", "u", "r", "n" >>, {"max", "minutes"}),
                           Zone(<< "C", "a", "r", "d", "i", "o" >>, {"minutes"}),
                           Zone(<< "P", "e", "a", "k" >>, {}) >> } }
            \cup
            { Item("body_weight", t, d, << >>, FALSE, NoLevels, {}) :
                d \in Dicts({"bmi", "fat", "weight"}, { IntV(7) }) }
            \cup
            { Item("body_fat", t, d, << >>, FALSE, NoLevels, {}) :
                d \in Dicts({"fat"}, { IntV(7) }) }
            \cup
            { Item("sleep", t, d, << >>, FALSE, NoLevels, top) :
                d \in Dicts({"duration", "efficiency"}, { IntV(7) }),
                top \in SUBSET {"summary", "data", "shortData"} }
            \cup
            { Item("sleep", t, d, << >>, TRUE, lv, top) :
                d \in Dicts({"duration", "efficiency"}, { IntV(7) }),
                lv \in [summary   : { << >>,
                                      << [name |-> << "d", "e", "e", "p" >>,
                                          vals |-> [count |-> IntV(3),
                                                    minutes |-> IntV(40),
                                                    thirtyDayAvgMinutes |-> IntV(38)]],
                                         [name |-> << "l", "i", "g", "h", "t" >>,
                                          vals |-> [count |-> IntV(0),
                                                    minutes |-> IntV(7),
                                                    thirtyDayAvgMinutes |-> IntV(0)]] >>,
                                      << [name |-> << "D", "E", "E", "P" >>,
                                          vals |-> [count |-> IntV(3),
                                                    minutes |-> IntV(40)]] >> },
                        data      : { << >>, << Segment(t + 1, "deep"),
                                                Segment(t + 2, "wake") >> },
                        shortData : { << >>, << Segment(t + 3, "wake") >> }],
                top \in SUBSET {"summary", "data", "shortData"} }
          : t \in 1 .. MaxConvTime }
    \cup { FalsyItem(f, r) : f \in {"default", "heart", "sleep"},
                             r \in {"empty", "none"} }

Pending == [state |-> "pending", points |-> << >>]

ConvertDefault ==
    /\ cv_out = Pending
    /\ ~IsFalsyItem(cv_item)
    /\ cv_item.family = "default"
    /\ cv_out' = new_dps(1, cv_item)
    /\ UNCHANGED << cv_item, poller_vars, env, loader_vars >>

ConvertHeart ==
    /\ cv_out = Pending
    /\ ~IsFalsyItem(cv_item)
    /\ cv_item.family = "heart"
    /\ cv_out' = Converted(transform_activities_heart_datapoint(cv_item))
    /\ UNCHANGED << cv_item, poller_vars, env, loader_vars >>

ConvertWeight ==
    /\ cv_out = Pending
    /\ ~IsFalsyItem(cv_item)
    /\ cv_item.family = "body_weight"
    /\ cv_out' = new_dps(2, cv_item)
    /\ UNCHANGED << cv_item, poller_vars, env, loader_vars >>

ConvertFat ==
    /\ cv_out = Pending
    /\ ~IsFalsyItem(cv_item)
    /\ cv_item.family = "body_fat"
    /\ cv_out' = Converted(transform_body_log_fat_datapoint(cv_item))
    /\ UNCHANGED << cv_item, poller_vars, env, loader_vars >>

ConvertSleep ==
    /\ cv_out = Pending
    /\ ~IsFalsyItem(cv_item)
    /\ cv_item.family = "sleep"
    /\ cv_out' = new_dps(3, cv_item)
    /\ UNCHANGED << cv_item, poller_vars, env, loader_vars >>

\* if not one_d: continue
SkipFalsy ==
    /\ cv_out = Pending
    /\ IsFalsyItem(cv_item)
    /\ cv_out' = new_dps(1, cv_item)
    /\ UNCHANGED << cv_item, poller_vars, env, loader_vars >>

InitConv ==
    /\ PollerOff
    /\ LoaderOff
    /\ cv_item \in ConvItems
    /\ cv_out = Pending

NextConv ==
    \/ SkipFalsy
    \/ ConvertDefault
    \/ ConvertHeart
    \/ ConvertWeight
    \/ ConvertFat
    \/ ConvertSleep

SpecConv == InitConv /\ [][NextConv]_vars

(***************************************************************************)
(* Vocabulary of the scheduler claims.                                     *)
(***************************************************************************)
Scheduled == pc \in {"fetch_req", "fetch_wait", "fetch_sleep", "write"}

BackfillScheduled == profile_to_first > 1

ForwardScheduled == last_to_current > 1

NIntervals == Len(intervals_to_fetch)

SizeOf(ivl) == ivl[2] - ivl[1]

\* interval i is the last chunk of the backfill gap and i+1 the first chunk
\* of the forward gap
JunctionAt(i) ==
    /\ BackfillScheduled
    /\ ForwardScheduled
    /\ i < NIntervals
    /\ Day(intervals_to_fetch[i][2]) = Day(first_ts)
    /\ intervals_to_fetch[i + 1][1] = last_ts

\* interval i is followed by another chunk of the same gap
NonFinal(i) == i < NIntervals /\ ~JunctionAt(i)

\* the chunks cover the gap a..b from its first to its last day: a chunk
\* starts at a and a chunk ends on the day of b
GapCovered(a, b) ==
    /\ \A d \in Day(a) .. Day(b) :
          \E i \in 1 .. NIntervals : d \in DaysOf(intervals_to_fetch[i])
    /\ \E i \in 1 .. NIntervals : intervals_to_fetch[i][1] = a
    /\ \E i \in 1 .. NIntervals : Day(intervals_to_fetch[i][2]) = Day(b)

(***************************************************************************)
(* C1.  The intervals of one series in one pass share no calendar day.     *)
(***************************************************************************)

\* C1 as stated: no calendar day belongs to two emitted intervals, neither
\* between chunks of one gap nor between the last backfill chunk and the
\* first forward chunk.
C1_NoSharedDay ==
    Scheduled =>
        \A i, j \in 1 .. NIntervals :
            i < j => DaysOf(intervals_to_fetch[i]) \cap DaysOf(intervals_to_fetch[j]) = {}

(***************************************************************************)
(* C2.  The chunks of a gap cover the gap exactly.                         *)
(***************************************************************************)

\* C2 as stated: for every scheduled gap, every day from the gap start to
\* the gap end is in some chunk, a chunk starts at the gap start, a chunk
\* ends exactly at the gap end, and no chunk reaches beyond its gap.
C2_GapsCoveredExactly ==
    Scheduled =>
        /\ BackfillScheduled => GapCovered(member_since_dt, first_ts)
        /\ ForwardScheduled => GapCovered(last_ts, cur_day)
        /\ (BackfillScheduled \/ ForwardScheduled) =>
              \A i \in 1 .. NIntervals :
                  \/ /\ BackfillScheduled
                     /\ member_since_dt <= intervals_to_fetch[i][1]
                     /\ intervals_to_fetch[i][2] <= first_ts
                  \/ /\ ForwardScheduled
                     /\ last_ts <= intervals_to_fetch[i][1]
                     /\ intervals_to_fetch[i][2] <= cur_day

(***************************************************************************)
(* C3.  The span of an interval.                                           *)
(***************************************************************************)

\* C3 as stated: no interval spans more than REQUEST_INTERVAL, every chunk
\* followed by another chunk of its gap has the size REQUEST_INTERVAL minus
\* one day, and a final chunk is no longer than that.
C3_ChunkIsMaxMinusOneDay ==
    Scheduled =>
        \A i \in 1 .. NIntervals :
            /\ SizeOf(intervals_to_fetch[i]) <= REQUEST_INTERVAL
            /\ NonFinal(i) => SizeOf(intervals_to_fetch[i]) = REQUEST_INTERVAL - OneDay
            /\ ~NonFinal(i) => SizeOf(intervals_to_fetch[i]) <= REQUEST_INTERVAL - OneDay

\* C3 amended: no interval spans more than REQUEST_INTERVAL from its start
\* to its end (one calendar day more at most); every chunk followed by another
\* chunk of its gap spans exactly REQUEST_INTERVAL, and a final chunk is no
\* longer than that.
C3_ChunkIsRequestInterval ==
    Scheduled =>
        \A i \in 1 .. NIntervals :
            /\ 0 <= SizeOf(intervals_to_fetch[i])
            /\ SizeOf(intervals_to_fetch[i]) <= REQUEST_INTERVAL
            /\ Cardinality(DaysOf(intervals_to_fetch[i])) <= Day(REQUEST_INTERVAL) + 1
            /\ NonFinal(i) => SizeOf(intervals_to_fetch[i]) = REQUEST_INTERVAL

\* a gap in three chunks: two full ones and a clipped final one
C3_Witness ==
    /\ Scheduled
    /\ NIntervals = 3
    /\ NonFinal(1)
    /\ NonFinal(2)
    /\ SizeOf(intervals_to_fetch[3]) < REQUEST_INTERVAL
    /\ SizeOf(intervals_to_fetch[3]) > 0

(***************************************************************************)
(* C4.  When a gap is scheduled.                                           *)
(***************************************************************************)

\* C4 as stated: the backfill gap is scheduled if and only if it is more
\* than one day wide, and so is the forward gap, for every width.
C4_ScheduledIffWiderThanOneDay ==
    Scheduled =>
        /\ BackfillScheduled <=> (first_ts - member_since_dt > OneDay)
        /\ ForwardScheduled <=> (cur_day - last_ts > OneDay)

(***************************************************************************)
(* C6.  The first run on an empty store.                                   *)
(***************************************************************************)
StoreIsEmpty == store[KeyOf(series_idx)] = {}

\* C6 as stated: with no row in the store first_ts and last_ts are cur_day,
\* the forward gap is empty, and a history shorter than the maximum span is
\* requested whole in exactly one interval, from the day of member_since to
\* the day of cur_day.
C6_EmptyStoreOneInterval ==
    (Scheduled /\ StoreIsEmpty) =>
        /\ first_ts = cur_day
        /\ last_ts = cur_day
        /\ ~ForwardScheduled
        /\ (cur_day - member_since_dt < REQUEST_INTERVAL)
              => /\ NIntervals = 1
                 /\ DaysOf(intervals_to_fetch[1])
                        = Day(member_since_dt) .. Day(cur_day)

(***************************************************************************)
(* Vocabulary of the fetch claims.                                         *)
(***************************************************************************)
Requesting == {"profile_req", "fetch_req"}

Waiting == {"profile_wait", "fetch_wait"}

Sleeping == {"profile_sleep", "fetch_sleep"}

\* the attempt in flight ends in this step
AttemptEnds == pc \in Waiting /\ pc' # pc

Kinds(tr) == { tr[k] : k \in 1 .. Len(tr) }

(***************************************************************************)
(* C5.  The interval list is never empty.                                  *)
(***************************************************************************)

\* C5: the interval list handed to fitbit_fetch_datapoints holds at least
\* one interval; when neither gap is scheduled it is exactly the one
\* interval (cur_day, cur_day); and a payload has been fetched for every
\* interval of the list, so for at least one, when the points are written.
C5_KeepAliveInterval ==
    /\ Scheduled =>
          /\ NIntervals >= 1
          /\ (~BackfillScheduled /\ ~ForwardScheduled)
                => intervals_to_fetch = << << cur_day, cur_day >> >>
    /\ (pc = "fetch_req" /\ ivl_idx = 1) => ivl_idx <= NIntervals
    /\ pc = "write" =>
          /\ Len(datapoints) = NIntervals
          /\ Len(datapoints) >= 1

\* the store is current for the series, and the one keep-alive interval
\* has been fetched
C5_Witness ==
    /\ pc = "write"
    /\ store[KeyOf(series_idx)] # {}
    /\ ~BackfillScheduled
    /\ ~ForwardScheduled
    /\ intervals_to_fetch = << << cur_day, cur_day >> >>
    /\ last_req = << ResourceOf(series_idx), cur_day, cur_day >>
    /\ Len(datapoints) = 1

(***************************************************************************)
(* C7.  Transient failures are retried and never leave the retry loop.     *)
(***************************************************************************)

\* C7: no process ends by an exception raised for a Timeout, a server error
\* or an exhausted rate limit; an attempt that fails with one of them, at
\* any count of earlier failures, leaves the loop position, the payloads
\* and the store as they are and leads to a sleep; the sleep leads only
\* back to the request; and the request issued after a failure is the one
\* issued before it, with the same resource and interval.
C7_TransientFailuresRetried ==
    /\ [](why_dead = "raised" => outcome \notin Transient)
    /\ [][(AttemptEnds /\ outcome' \in Transient)
            => /\ pc' = (IF pc = "fetch_wait" THEN "fetch_sleep" ELSE "profile_sleep")
               /\ UNCHANGED << series_idx, ivl_idx, intervals_to_fetch, datapoints,
                               store, last_req >>]_vars
    /\ [][(pc \in Sleeping /\ pc' # pc)
            => \/ pc' = (IF pc = "fetch_sleep" THEN "fetch_req" ELSE "profile_req")
               \/ why_dead' = "killed"]_vars
    /\ [][(pc \in Requesting /\ pc' \in Waiting /\ outcome \in Transient)
            => last_req' = last_req]_vars

\* the request for the second interval of a series failed in all three
\* ways and then succeeded
C7_Witness ==
    /\ pc = "fetch_req"
    /\ outcome = "ok"
    /\ ivl_idx = 3
    /\ Len(datapoints) = 2
    /\ Len(trace) = 3
    /\ Kinds(trace) = Transient
    /\ last_req = << ResourceOf(series_idx), intervals_to_fetch[2][1],
                     intervals_to_fetch[2][2] >>

(***************************************************************************)
(* C8.  Any other error ends the pass.                                     *)
(***************************************************************************)

\* C8: an attempt that fails with any other error ends the process by the
\* raised exception, with the store as it was and the payloads received
\* for the series dropped; and a process that has ended issues no request
\* and writes nothing: all that follows is a new process started from
\* outside.
C8_OtherErrorAborts ==
    /\ [][(AttemptEnds /\ outcome' = "Other")
            => /\ pc' = "dead"
               /\ why_dead' = "raised"
               /\ datapoints' = << >>
               /\ UNCHANGED << store, last_req >>]_vars
    /\ [][pc = "dead"
            => /\ UNCHANGED << store, files >>
               /\ \/ pc' = "dead" /\ UNCHANGED last_req
                  \/ pc' = "boot" /\ restarts' = restarts + 1]_vars

\* the forward-gap request of the weight log failed with another error,
\* after the backfill-gap request before it had been answered
C8_Witness ==
    /\ pc = "dead"
    /\ why_dead = "raised"
    /\ outcome = "Other"
    /\ last_req[1] = "body/log/weight"
    /\ last_req[2] > Midnight(MemberSinceDay)
    /\ last_req[2] \in store[KeyOf(2)]

(***************************************************************************)
(* C9.  The sleeps of the retry loop.                                      *)
(***************************************************************************)

\* C9: every failed attempt is followed by one sleep before the next
\* request, of 15 s after a Timeout or a server error and of no less than
\* the one-hour reset window after an exhausted rate limit; no request is
\* issued during a sleep; no sleep follows the attempt that succeeds; and
\* every interval gives exactly one payload, whatever was retried.
C9_SleepBeforeEachRetry ==
    /\ [](/\ Len(slept) = Len(trace)
          /\ \A k \in 1 .. Len(trace) :
                /\ trace[k] \in {"Timeout", "HTTPServerError"} => slept[k] = 15
                /\ trace[k] = "HTTPTooManyRequests" => slept[k] >= 3600
          /\ pc \in {"fetch_req", "fetch_wait", "fetch_sleep"}
                => Len(datapoints) = ivl_idx - 1)
    /\ [][(AttemptEnds /\ outcome' \in Transient)
            => /\ pc' \in Sleeping
               /\ Len(slept') = Len(slept) + 1]_vars
    /\ [][(pc \in Sleeping)
            => /\ pc' \notin Waiting
               /\ last_req' = last_req \/ why_dead' = "killed"]_vars
    /\ [][(AttemptEnds /\ outcome' = "ok")
            => /\ pc' \notin Sleeping
               /\ slept' = slept
               /\ pc = "fetch_wait" => Len(datapoints') = Len(datapoints) + 1]_vars

\* Timeout, server error, rate limit, success: three sleeps, one payload
C9_Witness ==
    /\ pc = "fetch_req"
    /\ outcome = "ok"
    /\ trace = << "Timeout", "HTTPServerError", "HTTPTooManyRequests" >>
    /\ slept = << 15, 15, 3610 >>
    /\ ivl_idx = 2
    /\ Len(datapoints) = 1

(***************************************************************************)
(* C10.  Credentials after a restart.                                      *)
(***************************************************************************)

\* C10 as stated: the new tokens are in their files before the next request
\* is issued, and whenever a process has loaded its credentials, also after
\* a stop at any point after a rotation, the tokens it holds are the pair
\* the source accepts: never a revoked token, never a mix of old and new.
C10_RestartLoadsCurrentCredentials ==
    /\ pc \in Requesting =>
          /\ files["access_token"] = creds.access_token
          /\ files["refresh_token"] = creds.refresh_token
    /\ (pc \notin {"boot", "boot_fill", "dead"} /\ hook = "idle") =>
          /\ creds.access_token = creds.refresh_token
          /\ creds.refresh_token = server_gen

(***************************************************************************)
(* Vocabulary of the loader claims.                                        *)
(***************************************************************************)
\* the first run on an empty store has built its list and written nothing
LoaderFirstList == ld_pc = "writing" /\ ld_store = {} /\ ld_lost = {}
                   /\ Len(ld_final) = Len(dedup_meas(ld_dump))

\* the value of the last record of the export with time t
LastValueAt(t) ==
    ld_dump[SetMax({ k \in 1 .. Len(ld_dump) : ld_dump[k].time = t })].value

\* C11 as stated: of the records of the export that share an identity,
\* exactly one is in the list handed to the store, and it carries the value
\* of the last of them in input order.
C11_DedupKeepsLast ==
    LoaderFirstList =>
        \A t \in TimesOf(Range(ld_dump)) :
            /\ Cardinality({ k \in 1 .. Len(ld_final) : ld_final[k].time = t }) = 1
            /\ \A k \in 1 .. Len(ld_final) :
                   ld_final[k].time = t => ld_final[k].value = LastValueAt(t)

(***************************************************************************)
(* Vocabulary of the pass claims.                                          *)
(***************************************************************************)
\* C12 as stated: the source being unchanged, no write of the second pass
\* adds a point to the store.
C12_SecondPassAddsNothing ==
    [][(pc = "write" /\ passes >= 1) => store' = store]_vars

\* C13 as stated: when write_data_for returns because the store's count
\* equals the length of the list left to write, the store already has a point
\* at the time of every record of that list.
C13_CountSkipLosesNothing ==
    ld_pc = "returned_count" =>
        \A k \in 1 .. Len(ld_final) : ld_final[k].time \in TimesOf(ld_store)

(***************************************************************************)
(* Vocabulary of the restart claims.                                       *)
(***************************************************************************)
\* the items of [member_since, cur_day] the source holds for the current
\* series and the store lacks
MissingItems == SourceItems(series_idx, cur_day) \ store[KeyOf(series_idx)]

RequestedDays == UNION { DaysOf(intervals_to_fetch[k]) : k \in 1 .. NIntervals }

\* C14 as stated: in the first pass of a restarted process, the intervals
\* derived from the store's first and last timestamps request every day of
\* [member_since, now] whose data the store lacks.
C14_RestartRefetchesMissing ==
    (Scheduled /\ restarts >= 1 /\ passes = 0) =>
        \A x \in MissingItems : Day(x) \in RequestedDays

(***************************************************************************)
(* Vocabulary of the start-up claims.                                      *)
(***************************************************************************)
\* a connection parameter is not in the environment, or a credential is
\* neither in its file nor in the environment
ConfigMissing ==
    \/ \E p \in ConnParams : env[p] = None
    \/ \E f \in CredFiles \ { "expires_at" } : files[f] = NoFile /\ env[f] = None

\* C15 as stated: started with a required credential or connection parameter
\* missing, the process ends without having sent a request, touched the store
\* or written a credential file.
C15_MissingConfigExitsBeforeWork ==
    [][(pc \in {"boot", "boot_fill"} /\ ConfigMissing) =>
          /\ pc' \in {"boot_fill", "dead"}
          /\ pc' = "dead" => why_dead' # "no"
          /\ last_req' = NoRequest
          /\ store' = store
          /\ files' = files]_vars

(***************************************************************************)
(* Vocabulary of the write-failure claims.                                 *)
(***************************************************************************)
\* C16 as stated, for the loader's chunked write: a batch the store rejects
\* ends the run; no record is rejected while the loader goes on to the next
\* chunk or to its end.
C16_RejectedBatchIsFatal ==
    ld_lost # {} => ld_pc = "dead"

(***************************************************************************)
(* Vocabulary of the conversion claims.                                    *)
(***************************************************************************)
Converting(family) ==
    cv_item.family = family /\ ~IsFalsyItem(cv_item) /\ cv_out # Pending

\* the value the default mapping is to give
ExpectedDefault(value) ==
    CASE value.kind \in {"none", "str_empty"}      -> FloatV(0)
      [] value.kind \in {"int", "bool", "str_num"} -> FloatV(1000 * value.v)
      [] OTHER                                     -> value

\* C17: the default mapping returns one point for one raw item; its time is
\* the item's dateTime, its one field is the series, and its value is 0.0 for
\* a missing or falsy value, the float of a numeric value, and the value
\* itself when it cannot be coerced; it never raises.
C17_DefaultMapping ==
    Converting("default") =>
        /\ cv_out.state = "returned"
        /\ Len(cv_out.points) = 1
        /\ cv_out.points[1].time = cv_item.time
        /\ cv_out.points[1].field = << "steps" >>
        /\ cv_out.points[1].value =
               ExpectedDefault(Get(cv_item.vals, "value", None))

\* an item without value was converted to a point of value 0.0
C17_Witness ==
    /\ Converting("default")
    /\ "value" \notin DOMAIN cv_item.vals
    /\ cv_out.state = "returned"
    /\ cv_out.points[1].value = FloatV(0)

Composite == {"heart", "body_weight", "body_fat", "sleep"}

LevelsKeys(item) == { key \in {"summary", "data", "shortData"} : item.levels[key] # << >> }

\* the optional nested structures the item has
OptionalCount(item) ==
    (IF item.zones # << >> THEN 1 ELSE 0) + (IF item.has_levels THEN 1 ELSE 0)
    + Cardinality(item.top_keys) + Cardinality(LevelsKeys(item))

\* the stage summary and the segments lie inside levels, as the source
\* sends them
ApiShaped(item) == item.top_keys = {}

BaseCount(family) ==
    CASE family = "body_weight" -> 3
      [] family = "sleep"       -> 8
      [] OTHER                  -> 1

BaseMeasurement(family) ==
    CASE family = "heart" -> "activities"
      [] family = "sleep" -> "sleep"
      [] OTHER            -> "body_log"

CountOf(meas) ==
    Cardinality({ k \in 1 .. Len(cv_out.points) : cv_out.points[k].measurement = meas })

\* C18: a composite transform returns on an item without any optional
\* structure exactly its base points (1 heart, 3 weight, 1 fat, 8 sleep, all
\* under the base measurement), and it does not fail on an item shaped as
\* the source sends it nor on one with a single optional structure.
C18_TransformsTotal ==
    (cv_item.family \in Composite /\ ~IsFalsyItem(cv_item) /\ cv_out # Pending) =>
        /\ (ApiShaped(cv_item) \/ OptionalCount(cv_item) <= 1) =>
               cv_out.state = "returned"
        /\ OptionalCount(cv_item) = 0 =>
               /\ cv_out.state = "returned"
               /\ Len(cv_out.points) = BaseCount(cv_item.family)
               /\ CountOf(BaseMeasurement(cv_item.family)) = BaseCount(cv_item.family)

\* a sleep record without any optional structure gave its eight points
C18_Witness ==
    /\ Converting("sleep")
    /\ OptionalCount(cv_item) = 0
    /\ cv_out.state = "returned"
    /\ CountOf("sleep") = 8

\* C19 as stated: for a sleep record whose levels hold a stage summary the
\* transform gives three sleep_levels points per stage, and for data and
\* shortData segments one point per segment under sleep_data and
\* sleep_shortData, stamped with the segment's start.
C19_SleepLevelPoints ==
    (Converting("sleep") /\ cv_item.has_levels /\ ApiShaped(cv_item)) =>
        /\ cv_out.state = "returned"
        /\ CountOf("sleep") = 8
        /\ CountOf("sleep_levels") = 3 * Len(cv_item.levels.summary)
        /\ CountOf("sleep_data") = Len(cv_item.levels.data)
        /\ CountOf("sleep_shortData") = Len(cv_item.levels.shortData)
        /\ \A j \in 1 .. Len(cv_item.levels.data) :
               \E k \in 1 .. Len(cv_out.points) :
                   /\ cv_out.points[k].measurement = "sleep_data"
                   /\ cv_out.points[k].time = cv_item.levels.data[j].datetime

(***************************************************************************)
(* Vocabulary of the later-pass claims.                                    *)
(***************************************************************************)
\* a pass after the first has just built the intervals of its first series;
\* the clock has not moved since the pass started
LaterPassStarted ==
    /\ pc = "fetch_req"
    /\ passes >= 1
    /\ series_idx = 1
    /\ ivl_idx = 1
    /\ trace = << >>

\* C20 as stated: in a pass after the first, the forward gap or the
\* keep-alive interval ends on the date on which the pass starts.
C20_LaterPassReachesToday ==
    (LaterPassStarted /\ (ForwardScheduled \/ ~BackfillScheduled)) =>
        Day(intervals_to_fetch[NIntervals][2]) = Day(now)

(***************************************************************************)
(* C21.  The API version of a request.                                     *)
(***************************************************************************)
\* the family of the series at hand
FamilyAtHand == BASE_SERIES[series_idx].meas

\* fitbit_fetch_datapoints is running for the series at hand
Fetching == pc \in {"fetch_req", "fetch_wait", "fetch_sleep"}

\* C21 as stated: in every pass a request of a family other than sleep goes
\* out with the client's default API version, and version 1.2 is in effect
\* only while the sleep family is being fetched.
C21_SleepVersionOnlyForSleep ==
    /\ (pc = "fetch_wait" /\ FamilyAtHand # "sleep")
          => api_version = DefaultApiVersion
    /\ (api_version = SleepApiVersion)
          => (Fetching /\ FamilyAtHand = "sleep")

(***************************************************************************)
(* C22.  The store connections and the blocking waits.                     *)
(***************************************************************************)
\* the process sleeps: after a failed attempt or at the end of a pass
BlockingWait == pc \in Sleeping \cup {"pass_sleep"}

\* C22: whenever the process is in a retry sleep (of the profile request or
\* of a series request) or in the sleep between two passes, every store
\* connection it opened has been closed.
C22_NoConnectionWhileAsleep == BlockingWait => db_open = 0

\* a retry sleep of a series request, after the database check, a cursor
\* query and a write each had their connection
C22_Witness ==
    /\ pc = "fetch_sleep"
    /\ slept # << >>
    /\ series_idx > 1
    /\ db_open = 0

(***************************************************************************)
(* C23.  The order of the intervals and of the points of one series.       *)
(***************************************************************************)
\* interval i + 1 is later than interval i: a chunk of the same gap starts
\* after the day interval i ends on; the first chunk of the forward gap
\* starts no earlier than the last chunk of the backfill gap starts and ends
DatesBefore(i, j) ==
    IF NonFinal(i)
    THEN Day(intervals_to_fetch[i][2]) < Day(intervals_to_fetch[j][1])
    ELSE /\ intervals_to_fetch[i][1] <= intervals_to_fetch[j][1]
         /\ Day(intervals_to_fetch[i][2]) <= Day(intervals_to_fetch[j][1])

\* interval i is a chunk of the backfill gap
InBackfill(i) ==
    /\ BackfillScheduled
    /\ intervals_to_fetch[i][1] >= member_since_dt
    /\ intervals_to_fetch[i][2] <= first_ts

\* interval i is a chunk of the forward gap
InForward(i) ==
    /\ ForwardScheduled
    /\ intervals_to_fetch[i][1] >= last_ts
    /\ intervals_to_fetch[i][2] <= cur_day

\* C23: within one series the intervals are in increasing date order, the
\* chunks of the backfill gap before the chunks of the forward gap; they are
\* requested in that order, and the points received are kept in the order
\* of their intervals until they are written.
C23_ChronologicalOrder ==
    Scheduled =>
        /\ \A i \in 1 .. NIntervals - 1 : DatesBefore(i, i + 1)
        /\ \A i, j \in 1 .. NIntervals :
              (InForward(i) /\ InBackfill(j) /\ i # j) => j < i
        /\ (BackfillScheduled \/ ForwardScheduled) =>
              \A i \in 1 .. NIntervals : InBackfill(i) \/ InForward(i)
        /\ Len(datapoints) = ivl_idx - 1
        /\ \A k \in 1 .. Len(datapoints) :
              \A x \in Range(datapoints[k]) : Day(x) \in DaysOf(intervals_to_fetch[k])
        /\ (pc = "fetch_wait") =>
              last_req = << ResourceOf(series_idx),
                            intervals_to_fetch[ivl_idx][1],
                            intervals_to_fetch[ivl_idx][2] >>
        /\ (pc = "write") => Len(datapoints) = NIntervals

\* both gaps were fetched, and each of the two intervals brought points
C23_Witness ==
    /\ pc = "write"
    /\ BackfillScheduled
    /\ ForwardScheduled
    /\ NIntervals >= 2
    /\ datapoints[1] # << >>
    /\ datapoints[NIntervals] # << >>

(***************************************************************************)
(* C24.  One request or one write at a time.                               *)
(***************************************************************************)
\* C24: an interval is requested only when every earlier interval of the
\* series has been answered; no request of write_points is under way and no
\* store connection is open outside the write; the loop leaves the write,
\* for the next series or for the sleep that ends the pass, only by the last
\* request of write_points, after which every item received is in the
\* store (a process that ends in the write leaves the loop altogether); so
\* when the next series is scheduled, nothing fetched is still waiting to
\* be written.
C24_StrictlySerialized ==
    /\ []((pc = "fetch_wait") =>
             /\ ivl_idx <= NIntervals
             /\ Len(datapoints) = ivl_idx - 1)
    /\ []((pc # "write") => (wr_pos = 0 /\ db_open = 0))
    /\ []((pc = "sched" /\ series_idx > 1) =>
             Flatten(datapoints) \subseteq store[KeyOf(series_idx - 1)])
    /\ [][(series_idx' = series_idx + 1) =>
             /\ pc = "write"
             /\ pc' = "sched"]_vars
    /\ [][(pc = "write" /\ pc' \notin {"write", "dead"}) =>
             /\ Len(datapoints) = NIntervals
             /\ Flatten(datapoints) \subseteq store'[KeyOf(series_idx)]
             /\ wr_pos' = 0
             /\ pc' \in {"sched", "pass_sleep"}]_vars

\* the first request of the second pass is out; the sleep series, written
\* before it, took more than one request of write_points, and all its
\* records are in the store
C24_Witness ==
    /\ pc = "fetch_wait"
    /\ passes = 1
    /\ series_idx = 1
    /\ Len(converted_dps(NSeries,
                         << time_series(NSeries, << member_since_dt, cur_day >>,
                                        now, "oldest_first") >>).points) > BATCH_SIZE
    /\ SourceItems(NSeries, cur_day) \subseteq store[KeyOf(NSeries)]
    /\ SourceItems(1, cur_day) \subseteq store[KeyOf(1)]

(***************************************************************************)
(* C25.  The loop never ends.                                              *)
(***************************************************************************)
\* C25: when every request is answered after finitely many transient
\* failures and every write succeeds, the process never ends; a pass takes
\* the series one by one, each scheduled once, in the order of BASE_SERIES;
\* the sleep between passes is entered only from the write of the last
\* series and is left only for the scheduling of the first; and scheduling
\* and the sleep between passes both come again and again.
C25_LoopNeverEnds ==
    /\ [](pc # "dead")
    /\ [][(series_idx' # series_idx) =>
             \/ pc = "write" /\ series_idx' = series_idx + 1
             \/ pc = "pass_sleep" /\ series_idx = NSeries /\ series_idx' = 1]_vars
    /\ [][(pc' = "sched" /\ pc # "sched") =>
             \/ pc = "profile_wait" /\ series_idx' = 1
             \/ series_idx' # series_idx]_vars
    /\ [][(pc' = "pass_sleep" /\ pc # "pass_sleep") =>
             (pc = "write" /\ series_idx = NSeries)]_vars
    /\ [][(pc = "pass_sleep" /\ pc' # "pass_sleep") =>
             (pc' = "sched" /\ series_idx' = 1)]_vars
    /\ []<>(pc = "sched")
    /\ []<>(pc = "pass_sleep")

\* a pass after the first is over and the process sleeps again
C25_Witness ==
    /\ pc = "pass_sleep"
    /\ passes >= 1
    /\ series_idx = NSeries
    /\ \A k \in StoreKeys : store[k] # {}

=============================================================================
